---- MODULE Spec2Model ----
(***************************************************************************)
(* LLM Council: the quota ledger (backend/supabase_schema.sql), the turn   *)
(* orchestrator with its event channel, and the web client that consumes   *)
(* the channel (frontend App.jsx, api.js).                                 *)
(***************************************************************************)
EXTENDS Integers, Sequences, FiniteSets, TLC

(* ------------------------------ bounds --------------------------------- *)

\* largest number of participants of a CouncilConfig
MaxCouncil == 3
\* largest number of PeerEvaluations that are aggregated
MaxEvaluations == 3
\* largest number of credits a ledger row starts with
MaxCredits == 2
\* number of database sessions that call the ledger concurrently
NumCallers == 2
\* total number of ledger calls started in one behaviour
MaxCalls == 3
\* what the daily renewal resets a row to (README: 200,000 tokens, scaled)
DailyCapacity == 2

Users == {"u1", "u2"}
Roles == Users \cup {"service_role"}
Callers == 1..NumCallers
Null == "null"

VARIABLES
  hasRow,       \* per user_id: account_credits holds a row for it
  credits,      \* account_credits.credits of that row (0 while there is none)
  rowLock,      \* per user_id: the session holding the row's write lock, 0 if none
  call,         \* per session: the consume_account_credit call in progress
  ledgerLog,    \* per user_id: what the finished calls did (history)
  nCalls,       \* number of calls started
  council,      \* CouncilConfig: the participants are 1..council, in this order
  turn,         \* the orchestrator's Turn
  stream,       \* the HTTP reply and the event channel of the turn
  storage,      \* Turn Storage: the persisted messages of the conversation
  client,       \* App state of the web client (App.jsx)
  conversation, \* currentConversation.messages of the web client
  rank,         \* Stage2's rank aggregation: its input and its result
  app,          \* App state of the web client outside a send: session and chat
  admin,        \* AdminPage state (pages/admin/page.jsx) and its requests in flight
  nav,          \* App state of the web client across conversations, tabs and sessions
  sse           \* sendMessageStream reading one response body (api.js)

ledgerVars == <<hasRow, credits, rowLock, call, ledgerLog, nCalls>>
turnVars == <<council, turn, stream, storage, client, conversation>>
rankVars == <<rank>>
appVars == <<app>>
pageVars == <<admin, nav, sse>>
\* what the actions of each part leave unchanged
notLedger == <<turnVars, rankVars, appVars, pageVars>>
notTurn == <<ledgerVars, rankVars, appVars, pageVars>>
notRank == <<ledgerVars, turnVars, appVars, pageVars>>
notApp == <<ledgerVars, rankVars, council, turn, stream, storage, pageVars>>
notPage == <<ledgerVars, turnVars, rankVars, appVars, nav, sse>>
notNav == <<ledgerVars, turnVars, rankVars, appVars, admin, sse>>
notSse == <<ledgerVars, turnVars, rankVars, appVars, admin, nav>>

(* ------------------------- account_credits ----------------------------- *)

\* credits integer not null default 0 check (credits >= 0)
CreditsCheckOff(v) == TRUE
CreditsCheck(v) == v >= 0

\* if auth.role() <> 'service_role' and auth.uid() is distinct from p_user_id
Forbidden(role, p_user_id) == role # "service_role" /\ role # p_user_id

\* where user_id = p_user_id and credits > 0
ConsumeMatchesNoGuard(exists, row) == exists
ConsumeMatchesAtZero(exists, row) == exists /\ row >= 0
ConsumeMatches(exists, row) == exists /\ row > 0

\* values (p_user_id, 0): the credits of the row consume_account_credit inserts
InsertedCreditsFull == DailyCapacity
InsertedCredits == 0

\* coalesce(v_credits, 0) of get_account_credits
get_account_credits(exists, row) == IF exists THEN row ELSE 0

\* set credits = credits - 1
ConsumeSetKeeps(row) == row
ConsumeSet(row) == row - 1

\* on conflict (user_id) do update set credits = credits + excluded.credits
AddUpsert(exists, row, p_amount) == IF exists THEN row + p_amount ELSE p_amount

IdleCall == [pc |-> "idle", target |-> Null, inserted |-> FALSE]

\* start: credits when the behaviour starts (-1: no row); ok, insufficient,
\* failed: consume calls that returned, raised INSUFFICIENT_CREDITS, or
\* failed on the check constraint; lastReturn: value the last successful
\* consume returned; granted: credits added; others: a renewal or a direct
\* write touched the row; overlap: two consume calls were in progress at once;
\* selfWrites: times the user itself changed the credits of its row, by a
\* direct statement or by add_account_credits
EmptyLog == [start |-> 0, ok |-> 0, insufficient |-> 0, failed |-> 0, lastReturn |-> 0 - 1,
             granted |-> 0, others |-> FALSE, overlap |-> FALSE, selfWrites |-> 0]

\* a row's write lock is free for session c
LockFree(c, u) == rowLock[u] \in {0, c}

LedgerInit ==
  /\ hasRow \in [Users -> BOOLEAN]
  /\ credits \in [Users -> 0..MaxCredits]
  /\ \A u \in Users : ~hasRow[u] => credits[u] = 0
  /\ rowLock = [u \in Users |-> 0]
  /\ call = [c \in Callers |-> IdleCall]
  /\ ledgerLog = [u \in Users |->
                    [EmptyLog EXCEPT !.start = IF hasRow[u] THEN credits[u] ELSE 0 - 1]]
  /\ nCalls = 0

\* a session starts rpc consume_account_credit(p_user_id); FORBIDDEN raises at once
BeginConsume(c, role, u) ==
  /\ call[c].pc = "idle"
  /\ nCalls < MaxCalls
  /\ nCalls' = nCalls + 1
  /\ IF Forbidden(role, u)
       THEN UNCHANGED <<call, ledgerLog>>
       ELSE /\ call' = [call EXCEPT ![c] = [pc |-> "insert", target |-> u, inserted |-> FALSE]]
            /\ ledgerLog' = [ledgerLog EXCEPT ![u].overlap =
                               @ \/ \E d \in Callers \ {c} : call[d].target = u]
  /\ UNCHANGED <<hasRow, credits, rowLock>>
  /\ UNCHANGED notLedger

\* insert into account_credits (user_id, credits) values (p_user_id, 0)
\* on conflict (user_id) do nothing; waits while another session's insert of
\* the same key is uncommitted
ConsumeInsert(c) ==
  LET u == call[c].target IN
  /\ call[c].pc = "insert"
  /\ LockFree(c, u)
  /\ IF ~hasRow[u]
       THEN /\ hasRow' = [hasRow EXCEPT ![u] = TRUE]
            /\ credits' = [credits EXCEPT ![u] = InsertedCredits]
            /\ rowLock' = [rowLock EXCEPT ![u] = c]
            /\ call' = [call EXCEPT ![c].pc = "update", ![c].inserted = TRUE]
       ELSE /\ call' = [call EXCEPT ![c].pc = "update"]
            /\ UNCHANGED <<hasRow, credits, rowLock>>
  /\ UNCHANGED <<ledgerLog, nCalls>>
  /\ UNCHANGED notLedger

\* update ... set credits = credits - 1 where user_id = p_user_id and credits > 0
\* returning credits into v_credits; raise INSUFFICIENT_CREDITS when no row
\* matched, else return v_credits. The update waits for the row's lock and
\* then sees the committed row. A raise (also the check constraint's) rolls
\* the transaction back, the row it inserted included.
ConsumeUpdate(c) ==
  LET u == call[c].target
      row == credits[u]
      matched == ConsumeMatches(hasRow[u], row)
      stored == matched /\ CreditsCheck(ConsumeSet(row))
  IN
  /\ call[c].pc = "update"
  /\ LockFree(c, u)
  /\ credits' = [credits EXCEPT ![u] = IF stored THEN ConsumeSet(row) ELSE row]
  /\ hasRow' = [hasRow EXCEPT ![u] = hasRow[u] /\ (stored \/ ~call[c].inserted)]
  /\ ledgerLog' = [ledgerLog EXCEPT ![u] =
        IF stored THEN [@ EXCEPT !.ok = @ + 1, !.lastReturn = ConsumeSet(row)]
        ELSE IF matched THEN [@ EXCEPT !.failed = @ + 1]
        ELSE [@ EXCEPT !.insufficient = @ + 1]]
  /\ rowLock' = [rowLock EXCEPT ![u] = 0]
  /\ call' = [call EXCEPT ![c] = IdleCall]
  /\ UNCHANGED nCalls
  /\ UNCHANGED notLedger

\* rpc add_account_credits(p_user_id, p_amount): FORBIDDEN, INVALID_CREDIT_AMOUNT
\* or one upsert statement
add_account_credits(c, role, u, p_amount) ==
  /\ call[c].pc = "idle"
  /\ nCalls < MaxCalls
  /\ nCalls' = nCalls + 1
  /\ LockFree(c, u)
  /\ IF Forbidden(role, u) \/ p_amount <= 0
          \/ ~CreditsCheck(AddUpsert(hasRow[u], credits[u], p_amount))
       THEN UNCHANGED <<hasRow, credits, ledgerLog>>
       ELSE /\ hasRow' = [hasRow EXCEPT ![u] = TRUE]
            /\ credits' = [credits EXCEPT ![u] = AddUpsert(hasRow[u], credits[u], p_amount)]
            /\ ledgerLog' = [ledgerLog EXCEPT ![u].granted = @ + p_amount,
                                              ![u].selfWrites =
                                                 IF role = u THEN @ + 1 ELSE @]
  /\ UNCHANGED <<rowLock, call>>
  /\ UNCHANGED notLedger

\* an authenticated user's own "update account_credits set credits = v":
\* allowed by the table grant and policy account_credits_owner_update, and
\* subject to the column's check constraint
OwnerUpdate(c, u, v) ==
  /\ call[c].pc = "idle"
  /\ nCalls < MaxCalls
  /\ nCalls' = nCalls + 1
  /\ LockFree(c, u)
  /\ IF hasRow[u] /\ CreditsCheck(v)
       THEN /\ credits' = [credits EXCEPT ![u] = v]
            /\ ledgerLog' = [ledgerLog EXCEPT ![u].others = TRUE,
                                              ![u].selfWrites =
                                                 IF v # credits[u] THEN @ + 1 ELSE @]
       ELSE UNCHANGED <<credits, ledgerLog>>
  /\ UNCHANGED <<hasRow, rowLock, call>>
  /\ UNCHANGED notLedger

\* the daily renewal of the quota by the scheduler
RenewQuota(c, u) ==
  /\ call[c].pc = "idle"
  /\ nCalls < MaxCalls
  /\ nCalls' = nCalls + 1
  /\ LockFree(c, u)
  /\ hasRow' = [hasRow EXCEPT ![u] = TRUE]
  /\ credits' = [credits EXCEPT ![u] = DailyCapacity]
  /\ ledgerLog' = [ledgerLog EXCEPT ![u].others = TRUE]
  /\ UNCHANGED <<rowLock, call>>
  /\ UNCHANGED notLedger

(* ---------------------------- data model ------------------------------- *)

Participants == 1..council
ChairmanModel == "chairman"
\* the subject whose turn the orchestrator runs
Subject == "u1"

\* a JSON value that is null, and one that is present (an empty list is present)
Absent == [present |-> FALSE]
Present(d) == [present |-> TRUE, data |-> d]

\* a slot of a stage whose gateway call has not settled
Pending == [model |-> 0, failed |-> FALSE]
\* ModelResponse of participant i (PeerEvaluation of evaluator i in Stage2)
Response(i, ok) == [model |-> i, failed |-> ~ok]

\* ChairmanResult of the chairman's call, and the one synthesized on cancellation
ChairmanResult(ok) ==
  [model |-> ChairmanModel, text |-> IF ok THEN "answer" ELSE "error", cancelled |-> FALSE]
SynthesizedResult == [model |-> "system/cancelled", text |-> "stopped", cancelled |-> TRUE]

\* Stage1/Stage2 collect each result into the slot of its participant
CollectInArrivalOrder(slots, i, r) ==
  LET k == CHOOSE k \in 1..Len(slots) :
             slots[k] = Pending /\ \A j \in 1..(k - 1) : slots[j] # Pending
  IN [slots EXCEPT ![k] = r]
Collect(slots, i, r) == [slots EXCEPT ![i] = r]

\* Anonymizer: label k ("Response A", "Response B", ...) stands for the k-th
\* successful response
AnonymizerAll(responses) == [k \in 1..Len(responses) |-> responses[k].model]
Anonymizer(responses) ==
  LET ok == SelectSeq(responses, LAMBDA r : ~r.failed)
  IN [k \in 1..Len(ok) |-> ok[k].model]

AnyModelFailed(responses) == \E k \in 1..Len(responses) : responses[k].failed
AllModelsFailed(responses) == \A k \in 1..Len(responses) : responses[k].failed

Event(type, data, metadata) == [type |-> type, data |-> data, metadata |-> metadata]

NoLoading == [stage1 |-> FALSE, stage2 |-> FALSE, stage3 |-> FALSE]

\* rows of table messages, and the messages the client holds: send is the
\* handleSendMessage call that made the message (0: an earlier one)
UserMessage(send) ==
  [role |-> "user", content |-> Present("query"), stage1 |-> Absent, stage2 |-> Absent,
   stage3 |-> Absent, metadata |-> Absent, loading |-> NoLoading, send |-> send]
AssistantMessage(s1, s2, s3, meta, send) ==
  [role |-> "assistant", content |-> Absent, stage1 |-> s1, stage2 |-> s2,
   stage3 |-> s3, metadata |-> meta, loading |-> NoLoading, send |-> send]

\* constraint messages_payload_check
messages_payload_check(m) ==
  \/ /\ m.role = "user" /\ m.content.present
     /\ ~m.stage1.present /\ ~m.stage2.present /\ ~m.stage3.present
  \/ /\ m.role = "assistant" /\ ~m.content.present
     /\ m.stage1.present /\ m.stage2.present /\ m.stage3.present

\* an earlier, completed turn of the conversation
PriorTurn ==
  << UserMessage(0),
     AssistantMessage(Present(<<Response(1, TRUE)>>), Present(<<Response(1, TRUE)>>),
                      Present(ChairmanResult(TRUE)), Present(<<1>>), 0) >>

\* cancelSeen: the boundary where the cancellation was seen; outOfOrder: a
\* Stage1 call settled before the call of an earlier participant (history)
NoTurn ==
  [state |-> "idle", inflight |-> {}, stage1 |-> <<>>, stage2 |-> <<>>, stage3 |-> Absent,
   labelMap |-> Absent, chairmanCalls |-> 0, failure |-> Null, cancelSeen |-> Null,
   outOfOrder |-> FALSE]

\* status: the HTTP status of the reply (0: none yet); wire: the events written
\* and not yet read; emitted: the types of all events the orchestrator
\* emitted; closed: the orchestrator ended the stream; aborted: the client
\* aborted the request (the orchestrator's cancellation signal)
NoStream == [status |-> 0, wire |-> <<>>, emitted |-> <<>>, closed |-> FALSE, aborted |-> FALSE]

ReadyClient(c) ==
  [pc |-> "ready", isLoading |-> FALSE, canCancelMessage |-> FALSE, accountMessage |-> "",
   streamAbortController |-> FALSE, hasReceivedFirstStreamSignal |-> FALSE,
   received |-> <<>>, credits |-> c, pending |-> {}, minimumExpectedMessages |-> 0,
   attempt |-> 0]

TerminalStates == {"completed", "cancelled", "failed"}

(* ------------------------- Turn Orchestrator --------------------------- *)

\* the orchestrator yields an event: it reaches the wire while the client is
\* connected
Emit(st, e) ==
  [st EXCEPT !.emitted = Append(@, e.type),
             !.wire = IF st.aborted THEN @ ELSE Append(@, e)]

Close(st) == [st EXCEPT !.closed = TRUE]

\* Turn Storage put(turn): the user row and the assistant row of the turn
Persist(rows, t) ==
  LET u == UserMessage(1)
      a == AssistantMessage(Present(t.stage1), Present(t.stage2), t.stage3, t.labelMap, 1)
  IN IF messages_payload_check(u) /\ messages_payload_check(a)
       THEN rows \o <<u, a>> ELSE rows

\* Authorizing: Quota Ledger consume(subjectId), the whole rpc
\* consume_account_credit as one transaction; InsufficientQuota ends the turn
\* with the 402 reply, else the reply is the event stream and Stage1 starts
Authorize ==
  LET row == credits[Subject]
      granted == ConsumeMatches(hasRow[Subject], row) /\ CreditsCheck(ConsumeSet(row))
  IN
  /\ turn.state = "authorizing"
  /\ IF granted
       THEN /\ credits' = [credits EXCEPT ![Subject] = ConsumeSet(row)]
            /\ ledgerLog' = [ledgerLog EXCEPT ![Subject].ok = @ + 1,
                                              ![Subject].lastReturn = ConsumeSet(row)]
            /\ turn' = [turn EXCEPT !.state = "stage1", !.inflight = Participants,
                                    !.stage1 = [i \in Participants |-> Pending]]
            /\ stream' = Emit([stream EXCEPT !.status = 200],
                              Event("stage1_start", Absent, Absent))
       ELSE /\ ledgerLog' = [ledgerLog EXCEPT ![Subject].insufficient = @ + 1]
            /\ turn' = [turn EXCEPT !.state = "failed", !.failure = "InsufficientQuota"]
            /\ stream' = Close([stream EXCEPT !.status = 402])
            /\ UNCHANGED credits
  /\ UNCHANGED <<hasRow, rowLock, call, nCalls, rankVars, appVars, pageVars, council, storage, client,
                  conversation>>

\* a Stage1 gateway call settles, with a response or with an error or timeout
SettleStage1(i, ok) ==
  /\ turn.state = "stage1"
  /\ i \in turn.inflight
  /\ turn' = [turn EXCEPT !.inflight = @ \ {i},
                          !.stage1 = Collect(@, i, Response(i, ok)),
                          !.outOfOrder = @ \/ \E j \in turn.inflight : j < i]
  /\ UNCHANGED <<notTurn, council, stream, storage, client, conversation>>

\* all Stage1 calls settled: AllModelsFailed aborts the turn with an error
\* event, else stage1_complete carries the response set
FinishStage1 ==
  /\ turn.state = "stage1"
  /\ turn.inflight = {}
  /\ IF AllModelsFailed(turn.stage1)
       THEN /\ turn' = [turn EXCEPT !.state = "failed", !.failure = "AllModelsFailed"]
            /\ stream' = Close(Emit(stream, Event("error", Absent, Absent)))
       ELSE /\ turn' = [turn EXCEPT !.state = "after1"]
            /\ stream' = Emit(stream, Event("stage1_complete", Present(turn.stage1), Absent))
  /\ UNCHANGED <<notTurn, council, storage, client, conversation>>

\* cancellation seen at a stage boundary: no further stage, a ChairmanResult
\* with cancelled = true unless Stage3 produced one, status Cancelled, and
\* the Turn is persisted
CancelTurn(at) ==
  LET t == [turn EXCEPT !.state = "cancelled", !.cancelSeen = at,
                        !.stage3 = IF @.present THEN @ ELSE Present(SynthesizedResult)]
  IN /\ turn' = t
     /\ storage' = Persist(storage, t)
     /\ stream' = Close(stream)

\* the boundary after Stage1: the Anonymizer labels the responses and Stage2
\* dispatches one call per participant
StartStage2 ==
  /\ turn.state = "after1"
  /\ IF stream.aborted
       THEN CancelTurn("after1")
       ELSE /\ turn' = [turn EXCEPT !.state = "stage2", !.inflight = Participants,
                                    !.labelMap = Present(Anonymizer(turn.stage1)),
                                    !.stage2 = [i \in Participants |-> Pending]]
            /\ stream' = Emit(stream, Event("stage2_start", Absent, Absent))
            /\ UNCHANGED storage
  /\ UNCHANGED <<notTurn, council, client, conversation>>

\* a Stage2 call settles: a parsed ranking, or a gateway error or a text
\* with no extractable order (failed)
SettleStage2(i, ok) ==
  /\ turn.state = "stage2"
  /\ i \in turn.inflight
  /\ turn' = [turn EXCEPT !.inflight = @ \ {i},
                          !.stage2 = Collect(@, i, Response(i, ok))]
  /\ UNCHANGED <<notTurn, council, stream, storage, client, conversation>>

FinishStage2 ==
  /\ turn.state = "stage2"
  /\ turn.inflight = {}
  /\ turn' = [turn EXCEPT !.state = "after2"]
  /\ stream' = Emit(stream, Event("stage2_complete", Present(turn.stage2), turn.labelMap))
  /\ UNCHANGED <<notTurn, council, storage, client, conversation>>

\* the boundary after Stage2: the single call to the chairman
StartStage3 ==
  /\ turn.state = "after2"
  /\ IF stream.aborted
       THEN CancelTurn("after2")
       ELSE /\ turn' = [turn EXCEPT !.state = "stage3", !.chairmanCalls = @ + 1]
            /\ stream' = Emit(stream, Event("stage3_start", Absent, Absent))
            /\ UNCHANGED storage
  /\ UNCHANGED <<notTurn, council, client, conversation>>

\* the chairman's call settles: its answer, or the text of its error
SettleStage3(ok) ==
  /\ turn.state = "stage3"
  /\ turn' = [turn EXCEPT !.state = "after3", !.stage3 = Present(ChairmanResult(ok))]
  /\ stream' = Emit(stream, Event("stage3_complete", Present(ChairmanResult(ok)), Absent))
  /\ UNCHANGED <<notTurn, council, storage, client, conversation>>

\* Settling: a cancellation received before it ends the turn Cancelled,
\* else the Turn is persisted and the complete event ends the stream
Settle ==
  /\ turn.state = "after3"
  /\ IF stream.aborted
       THEN CancelTurn("after3")
       ELSE /\ turn' = [turn EXCEPT !.state = "completed"]
            /\ storage' = Persist(storage, turn)
            /\ stream' = Close(Emit(stream, Event("complete", Absent, turn.labelMap)))
  /\ UNCHANGED <<notTurn, council, client, conversation>>

(* ------------------------- web client (App.jsx) ------------------------ *)

\* sendMessageStream: the next event block of the buffer, and the buffer
\* after it (buffer.slice(separatorIndex + 2))
NextBlockNewest(buffer) == buffer[Len(buffer)]
NextBlock(buffer) == Head(buffer)
AfterBlockKept(buffer) == buffer
AfterBlock(buffer) == Tail(buffer)

SetLast(messages, m) == [messages EXCEPT ![Len(messages)] = m]

\* prev.messages.slice(0, -2)
DropLastOne(messages) == SubSeq(messages, 1, Len(messages) - 1)
DropLastTwo(messages) == SubSeq(messages, 1, Len(messages) - 2)

\* the placeholder handleSendMessage writes when the request was aborted
CancelledPlaceholderLive == [model |-> "system/cancelled", text |-> "stopped", cancelled |-> FALSE]
CancelledPlaceholder == [model |-> "system/cancelled", text |-> "stopped", cancelled |-> TRUE]

\* the assistant message handleSendMessage appends before the request
AssistantPlaceholder(send) ==
  [role |-> "assistant", content |-> Absent, stage1 |-> Absent, stage2 |-> Absent,
   stage3 |-> Absent, metadata |-> Absent, loading |-> NoLoading, send |-> send]

\* the onEvent callback of handleSendMessage: what an event does to
\* currentConversation.messages
ApplyEvent(messages, e) ==
  IF Len(messages) = 0 THEN messages ELSE
  LET last == messages[Len(messages)] IN
  CASE e.type = "stage1_start" ->
         SetLast(messages, [last EXCEPT !.loading.stage1 = TRUE])
    [] e.type = "stage1_complete" ->
         SetLast(messages, [last EXCEPT !.stage1 = e.data, !.loading.stage1 = FALSE])
    [] e.type = "stage2_start" ->
         SetLast(messages, [last EXCEPT !.loading.stage2 = TRUE])
    [] e.type = "stage2_complete" ->
         SetLast(messages, [last EXCEPT !.stage2 = e.data, !.metadata = e.metadata,
                                        !.loading.stage2 = FALSE])
    [] e.type = "stage3_start" ->
         SetLast(messages, [last EXCEPT !.loading.stage3 = TRUE])
    [] e.type = "stage3_complete" ->
         SetLast(messages, [last EXCEPT !.stage3 = e.data, !.loading.stage3 = FALSE])
    [] e.type = "complete" ->
         IF last.role = "assistant" /\ e.metadata.present
           THEN SetLast(messages, [last EXCEPT !.metadata = e.metadata])
           ELSE messages
    [] OTHER -> messages

\* the abort branch of handleSendMessage on currentConversation.messages
ApplyAbortOverwrite(messages) ==
  IF Len(messages) = 0 THEN messages ELSE
  LET last == messages[Len(messages)] IN
  IF last.role = "assistant"
    THEN SetLast(messages, [last EXCEPT !.loading = NoLoading,
                                        !.stage3 = Present(CancelledPlaceholder)])
    ELSE messages
ApplyAbort(messages) ==
  IF Len(messages) = 0 THEN messages ELSE
  LET last == messages[Len(messages)] IN
  IF last.role = "assistant"
    THEN SetLast(messages, [last EXCEPT !.loading = NoLoading,
                                        !.stage3 = IF @.present THEN @
                                                   ELSE Present(CancelledPlaceholder)])
    ELSE messages

Max(a, b) == IF a >= b THEN a ELSE b

\* handleSendMessage up to the request: the user message and the assistant
\* placeholder are appended and the request reaches the orchestrator
SendMessage ==
  /\ client.pc = "ready"
  /\ ~client.isLoading
  /\ app.currentConversationId # 0
  /\ client' = [client EXCEPT !.pc = "fetching", !.isLoading = TRUE,
                              !.canCancelMessage = FALSE, !.streamAbortController = TRUE,
                              !.hasReceivedFirstStreamSignal = FALSE]
  /\ conversation' = conversation \o <<UserMessage(1), AssistantPlaceholder(1)>>
  /\ turn' = [NoTurn EXCEPT !.state = "authorizing"]
  /\ UNCHANGED <<notTurn, council, stream, storage>>

\* fetch resolves: with a stream to read, or with a status that
\* sendMessageStream throws (402) and handleSendMessage catches
ReceiveReply ==
  /\ client.pc = "fetching"
  /\ stream.status # 0
  /\ IF stream.status = 200
       THEN /\ client' = [client EXCEPT !.pc = "streaming"]
            /\ UNCHANGED conversation
       ELSE /\ client' = [client EXCEPT !.pc = "done",
                            !.accountMessage = IF stream.status = 402 THEN "quota" ELSE @,
                            !.pending = IF stream.status = 402 THEN @ \cup {"credits"} ELSE @,
                            !.streamAbortController = FALSE,
                            !.canCancelMessage = FALSE, !.isLoading = FALSE]
            /\ conversation' = DropLastTwo(conversation)
  /\ UNCHANGED <<notTurn, council, turn, stream, storage>>

\* sendMessageStream reads one event block and calls onEvent
ReadEvent ==
  /\ client.pc = "streaming"
  /\ stream.wire # <<>>
  /\ LET e == NextBlock(stream.wire)
         terminal == e.type \in {"complete", "error"}
     IN /\ stream' = [stream EXCEPT !.wire = AfterBlock(@)]
        /\ conversation' = ApplyEvent(conversation, e)
        /\ client' = [client EXCEPT
             !.hasReceivedFirstStreamSignal = TRUE,
             !.canCancelMessage = ~terminal,
             !.received = Append(@, e.type),
             !.isLoading = IF terminal THEN FALSE ELSE @,
             !.streamAbortController = IF terminal THEN FALSE ELSE @,
             !.pending = IF e.type = "complete" THEN @ \cup {"credits", "conversation"} ELSE @]
  /\ UNCHANGED <<notTurn, council, turn, storage>>

\* the stream is read to its end: sendMessageStream returns
StreamEnd ==
  /\ client.pc = "streaming"
  /\ stream.wire = <<>>
  /\ stream.closed
  /\ client' = [client EXCEPT !.pc = "done"]
  /\ UNCHANGED <<notTurn, council, turn, stream, storage, conversation>>

\* handleCancelMessage (the button shows while isLoading and
\* canCancelMessage): the request is aborted, reader.read() rejects with
\* AbortError and the abort branch of handleSendMessage runs
CancelMessage ==
  /\ client.isLoading
  /\ client.canCancelMessage
  /\ client.streamAbortController
  /\ client.pc = "streaming"
  /\ stream' = [stream EXCEPT !.aborted = TRUE, !.wire = <<>>]
  /\ conversation' = ApplyAbort(conversation)
  /\ client' = [client EXCEPT !.pc = "done", !.streamAbortController = FALSE,
                              !.canCancelMessage = FALSE, !.isLoading = FALSE,
                              !.minimumExpectedMessages = Max(2, Len(conversation)),
                              !.pending = @ \cup {"poll"}]
  /\ UNCHANGED <<notTurn, council, turn, storage>>

\* the response body ends before a terminal event was written (the server or
\* a proxy closes the connection): reader.read() reports done after the
\* blocks already sent, and the orchestrator sees the caller gone
StreamCut ==
  /\ client.pc = "streaming"
  /\ ~stream.closed
  /\ ~stream.aborted
  /\ stream' = [stream EXCEPT !.closed = TRUE, !.aborted = TRUE]
  /\ UNCHANGED <<notTurn, council, turn, storage, client, conversation>>

\* what api.getConversation returns: the persisted messages
FetchedMessages == storage

\* const maxAttempts = 8 of refreshConversationAfterCancel
maxAttempts == 8

\* hasAssistantTurnPersisted and the count test of an attempt's reply
TurnFetched(fetched, minimumMessageCount) ==
  /\ Len(fetched) >= minimumMessageCount
  /\ Len(fetched) > 0
  /\ fetched[Len(fetched)].role = "assistant"

\* refreshConversationAfterCancel, one attempt of its loop: a reply that
\* holds the persisted assistant turn replaces the conversation and ends the
\* loop; any other reply counts the attempt, and the loop ends without a
\* change after maxAttempts of them (attempt, the loop's variable, is 0
\* outside the loop). loadCredits follows the loop.
RefreshAfterCancel ==
  /\ "poll" \in client.pending
  /\ IF TurnFetched(FetchedMessages, client.minimumExpectedMessages)
       THEN /\ conversation' = FetchedMessages
            /\ client' = [client EXCEPT !.attempt = 0,
                                        !.pending = (@ \ {"poll"}) \cup {"credits"}]
       ELSE /\ UNCHANGED conversation
            /\ client' = IF client.attempt + 1 < maxAttempts
                           THEN [client EXCEPT !.attempt = @ + 1]
                           ELSE [client EXCEPT !.attempt = 0,
                                               !.pending = (@ \ {"poll"}) \cup {"credits"}]
  /\ UNCHANGED <<notTurn, council, turn, stream, storage>>

\* loadConversation(activeConversationId) after the complete event
LoadConversationReply ==
  /\ "conversation" \in client.pending
  /\ conversation' = FetchedMessages
  /\ client' = [client EXCEPT !.pending = @ \ {"conversation"}]
  /\ UNCHANGED <<notTurn, council, turn, stream, storage>>

\* loadCredits: get_account_credits returns coalesce(credits, 0)
LoadCreditsReply ==
  /\ "credits" \in client.pending
  /\ client' = [client EXCEPT !.pending = @ \ {"credits"},
                              !.credits = IF hasRow[Subject] THEN credits[Subject] ELSE 0]
  /\ UNCHANGED <<notTurn, council, turn, stream, storage, conversation>>

(* ---------------------- Stage2 rank aggregation ------------------------ *)

\* the council [A, B, C] whose responses are ranked
RankCouncil == {1, 2, 3}

\* PeerEvaluation: a text with no extractable order is failed, with an empty
\* parsedOrder; the labels of a parsedOrder are indices of the AnonymizationMap
PeerEvaluation(i, order) == [evaluator |-> i, failed |-> order = <<>>, parsedOrder |-> order]

\* the orders a ranking text can parse to: each label at most once
ParsedOrders(labels) ==
  {o \in UNION {[1..k -> labels] : k \in 0..Cardinality(labels)} :
     \A a, b \in DOMAIN o : o[a] = o[b] => a = b}

\* the rank a position of a parsedOrder counts as: 1-based
RankOfPositionZeroBased(p) == p - 1
RankOfPosition(p) == p

\* one parsedOrder added to the tally: per label the sum of its ranks and
\* the number of evaluations that mention it
RECURSIVE TallyOrder(_, _, _)
TallyOrder(order, p, tally) ==
  IF p > Len(order) THEN tally
  ELSE TallyOrder(order, p + 1,
         [tally EXCEPT ![order[p]] = [sum |-> @.sum + RankOfPosition(p),
                                      count |-> @.count + 1]])

\* the tally of the successfully parsed evaluations k..Len(evaluations)
RECURSIVE Tally(_, _, _)
Tally(evaluations, k, tally) ==
  IF k > Len(evaluations) THEN tally
  ELSE Tally(evaluations, k + 1,
         IF evaluations[k].failed THEN tally
         ELSE TallyOrder(evaluations[k].parsedOrder, 1, tally))

\* AggregateRank entry: averageRank is the fraction num / den
RankEntry(modelId, t) ==
  [modelId |-> modelId, averageRank |-> [num |-> t.sum, den |-> t.count],
   evaluationCount |-> t.count]

\* a ranks before b: lower averageRank, then higher evaluationCount
RanksBefore(a, b) ==
  \/ a.averageRank.num * b.averageRank.den < b.averageRank.num * a.averageRank.den
  \/ /\ a.averageRank.num * b.averageRank.den = b.averageRank.num * a.averageRank.den
     /\ a.evaluationCount > b.evaluationCount

\* e inserted into a sorted list after the entries it does not rank before
RECURSIVE InsertRanked(_, _)
InsertRanked(e, sorted) ==
  IF sorted = <<>> THEN <<e>>
  ELSE IF RanksBefore(e, Head(sorted)) THEN <<e>> \o sorted
  ELSE <<Head(sorted)>> \o InsertRanked(e, Tail(sorted))

\* the entries of labels l..Len(labelMap) that were mentioned, sorted; ties
\* keep CouncilConfig order
RECURSIVE RankedFrom(_, _, _)
RankedFrom(labelMap, tally, l) ==
  IF l < 1 THEN <<>>
  ELSE LET rest == RankedFrom(labelMap, tally, l - 1)
       IN IF tally[l].count = 0 THEN rest
          ELSE InsertRanked(RankEntry(labelMap[l], tally[l]), rest)

\* Stage2's aggregation of the PeerEvaluations into AggregateRank
AggregateRank(evaluations, labelMap) ==
  RankedFrom(labelMap,
             Tally(evaluations, 1, [l \in DOMAIN labelMap |-> [sum |-> 0, count |-> 0]]),
             Len(labelMap))

NoRank == [labelMap |-> <<>>, evaluations |-> <<>>, aggregate |-> Absent]

RankIdle == rank = NoRank

\* the AnonymizationMap of a Stage1 of the council in which somebody succeeded
RankInit ==
  \E ok \in [RankCouncil -> BOOLEAN] :
    /\ \E i \in RankCouncil : ok[i]
    /\ rank = [NoRank EXCEPT !.labelMap = Anonymizer([i \in RankCouncil |-> Response(i, ok[i])])]

\* an evaluator's ranking text is parsed to an order of labels, or fails
Evaluate(order) ==
  /\ ~rank.aggregate.present
  /\ Len(rank.evaluations) < MaxEvaluations
  /\ rank' = [rank EXCEPT !.evaluations =
                Append(@, PeerEvaluation(Len(rank.evaluations) + 1, order))]
  /\ UNCHANGED notRank

\* all evaluators settled: the evaluations are aggregated
Aggregate ==
  /\ ~rank.aggregate.present
  /\ rank' = [rank EXCEPT !.aggregate = Present(AggregateRank(rank.evaluations, rank.labelMap))]
  /\ UNCHANGED notRank

RankNext ==
  \/ \E order \in ParsedOrders(DOMAIN rank.labelMap) : Evaluate(order)
  \/ Aggregate

(* ------------------- session bootstrap (App.jsx, auth) ----------------- *)

\* pc: where bootstrapSession stands; token: api holds an access token;
\* configured: isSupabaseOAuthConfigured(); urlCode: the URL carries ?code=;
\* urlArtifacts: the URL carries OAuth callback artifacts; calls: the calls
\* made so far, in order (history); existing: what getSession returned;
\* resolved: what resolveSupabaseSession returned; hadToken, hadCode: token
\* and urlCode when bootstrapSession started (history); creating: the
\* handlers with a createConversation request in flight; createdWith: the
\* displayed credits at each createConversation call made (history); the
\* other fields are App state of the same names
FreshApp(token, configured, urlCode, callbackError) ==
  [pc |-> "start", token |-> token, configured |-> configured, urlCode |-> urlCode,
   urlArtifacts |-> urlCode \/ callbackError, calls |-> <<>>, existing |-> Null,
   resolved |-> Absent, hadToken |-> token, hadCode |-> urlCode,
   user |-> FALSE, isAuthLoading |-> TRUE,
   authEntryError |-> IF callbackError THEN "callback" ELSE "",
   mainView |-> "chat", conversationListTab |-> "chats", currentConversationId |-> 0,
   pendingConversationLoads |-> 0, chatsLoaded |-> FALSE, autoInFlight |-> FALSE,
   creating |-> {}, createdWith |-> {}]

\* the App of a signed-in user with conversation id selected (0: none)
SignedInApp(id) ==
  [FreshApp(TRUE, TRUE, FALSE, FALSE) EXCEPT
     !.pc = "done", !.user = TRUE, !.isAuthLoading = FALSE, !.currentConversationId = id,
     !.chatsLoaded = TRUE]

AppIdle == app = SignedInApp(1)

Call(a, name) == [a EXCEPT !.calls = Append(@, name)]

\* resolveSupabaseSession's result
SessionResult(session, error) == Present([session |-> session, error |-> error])

\* resolveSupabaseSession after getSession: no existing session and the URL
\* carries a code
ShouldExchangeWithoutCode(existing, authCode) == existing = "none"
ShouldExchange(existing, authCode) == existing = "none" /\ authCode

\* bootstrapSession: the resolved session gives the access token
GrantsTokenUnchecked(session, error) == ~error
GrantsToken(session, error) == ~error /\ session = "token"

\* bootstrapSession from "clearOAuthCallbackArtifactsFromUrl()" to its
\* request of the current user or its return without a token
ClearAndContinue(a) ==
  LET b == [Call(a, "clear-artifacts") EXCEPT !.urlCode = FALSE, !.urlArtifacts = FALSE]
  IN IF ~b.token
       THEN [b EXCEPT !.isAuthLoading = FALSE, !.pc = "done"]
       ELSE [Call(b, "get-current-user") EXCEPT !.pc = "current-user"]

\* bootstrapSession after "await resolveSupabaseSession()"
AfterResolve(a, session, error) ==
  LET r == [a EXCEPT !.resolved = SessionResult(session, error)]
      b == IF error THEN [r EXCEPT !.authEntryError = "resolve"]
           ELSE IF GrantsToken(session, error)
             THEN [Call(r, "set-access-token") EXCEPT !.token = TRUE, !.authEntryError = ""]
           ELSE r
  IN ClearAndContinue(b)

\* bootstrapSession starts: with a stored token it goes on to clear the URL;
\* without one it calls resolveSupabaseSession, which returns at once when
\* OAuth is not configured and else calls getSession
BootstrapSession ==
  /\ app.pc = "start"
  /\ app' = IF app.token THEN ClearAndContinue(app)
            ELSE LET a == Call(app, "resolve-session") IN
                 IF ~a.configured THEN AfterResolve(a, "none", FALSE)
                 ELSE [Call(a, "get-session") EXCEPT !.pc = "get-session"]
  /\ UNCHANGED <<notApp, client, conversation>>

\* getSession settles: with a session, with none (and maybe an error), or it
\* throws
GetSessionReply(existing, sessionError, throws) ==
  /\ app.pc = "get-session"
  /\ app' = LET a == [app EXCEPT !.existing = IF throws THEN "none" ELSE existing] IN
            IF throws THEN AfterResolve(a, "none", TRUE)
            ELSE IF existing # "none" THEN AfterResolve(a, existing, FALSE)
            ELSE IF ShouldExchange(existing, a.urlCode)
              THEN [Call(a, "exchange-code") EXCEPT !.pc = "exchange"]
            ELSE AfterResolve(a, "none", sessionError)
  /\ UNCHANGED <<notApp, client, conversation>>

\* exchangeCodeForSession settles
ExchangeReply(session, error, throws) ==
  /\ app.pc = "exchange"
  /\ app' = IF throws THEN AfterResolve(app, "none", TRUE)
            ELSE AfterResolve(app, session, error)
  /\ UNCHANGED <<notApp, client, conversation>>

\* api.getCurrentUser settles: the user is set and the lists and the credits
\* are loaded, or handleUnauthorized clears the session
CurrentUserReply(ok) ==
  /\ app.pc = "current-user"
  /\ IF ok
       THEN /\ app' = [app EXCEPT !.user = TRUE, !.authEntryError = "", !.pc = "loading-data",
                                  !.pendingConversationLoads = 1]
            /\ client' = [client EXCEPT !.pending = @ \cup {"credits"}]
       ELSE /\ app' = [app EXCEPT !.token = FALSE, !.user = FALSE, !.authEntryError = "",
                                  !.isAuthLoading = FALSE, !.pc = "done"]
            /\ UNCHANGED client
  /\ UNCHANGED <<notApp, conversation>>

\* loadConversations settles for the list of the chats tab
LoadConversationsReply ==
  /\ app.pendingConversationLoads > 0
  /\ app' = [app EXCEPT !.pendingConversationLoads = @ - 1, !.chatsLoaded = TRUE]
  /\ UNCHANGED <<notApp, client, conversation>>

\* the loads bootstrapSession awaits have settled: setIsAuthLoading(false)
BootstrapDone ==
  /\ app.pc = "loading-data"
  /\ app.pendingConversationLoads = 0
  /\ "credits" \notin client.pending
  /\ app' = [app EXCEPT !.isAuthLoading = FALSE, !.pc = "done"]
  /\ UNCHANGED <<notApp, client, conversation>>

\* handleAuthenticated: the account-access page signed the user in;
\* clearChatState, then the lists and the credits are loaded
HandleAuthenticated ==
  /\ app.pc = "done"
  /\ ~app.user
  /\ app' = [app EXCEPT !.pc = "signed-in", !.token = TRUE, !.user = TRUE,
                        !.authEntryError = "", !.mainView = "chat",
                        !.conversationListTab = "chats", !.currentConversationId = 0,
                        !.pendingConversationLoads = 1, !.chatsLoaded = FALSE,
                        !.autoInFlight = FALSE]
  /\ client' = [ReadyClient(0) EXCEPT !.pending = {"credits"}]
  /\ conversation' = <<>>
  /\ UNCHANGED notApp

Sessions == {"none", "no-token", "token"}

AuthNext ==
  \/ BootstrapSession
  \/ \E existing \in Sessions, sessionError, throws \in BOOLEAN :
       GetSessionReply(existing, sessionError, throws)
  \/ \E session \in Sessions, error, throws \in BOOLEAN : ExchangeReply(session, error, throws)
  \/ \E ok \in BOOLEAN : CurrentUserReply(ok)
  \/ LoadConversationsReply
  \/ LoadCreditsReply
  \/ BootstrapDone
  \/ HandleAuthenticated

\* the App when it mounts: with or without a stored token, on a plain URL or
\* on an OAuth callback URL
AuthInit ==
  \E token, configured, urlCode, callbackError \in BOOLEAN :
    app = FreshApp(token, configured, urlCode, callbackError)

(* -------------------- admin drawer (pages/admin/page.jsx) --------------- *)

\* the drawer is opened at most MaxDrawerRequests times in a behaviour
MaxDrawerRequests == 3

AdminUsers == {1, 2}
Plans == {"free", "pro"}
\* the plan values a payload can carry
RawPlans == {"free", " PRO "}

normalizePlan(value) == IF value \in {"pro", " PRO "} THEN "pro" ELSE "free"

\* a user object: its user_id and its plan as received
AdminUser(id, plan) == [user_id |-> id, plan |-> plan]

\* users: the plan of each row of the list; selectedUserId: 0 when the drawer
\* is closed; inflight: the requests awaiting their reply, each with the
\* drawerRequestIdRef value and the closure values its handler holds; calls:
\* the updateAdminUserPlan calls made: the step that made each, whether its
\* arguments were the selected user's id and the draft plan, and whether the
\* draft differed from the selected user's plan (history); last: whether the
\* last step was a failed resetAdminUserQuota, with the state before it
\* (history); the other fields are AdminPage state of the same names
AdminLoaded(users) ==
  [activeTab |-> "users", users |-> users, selectedUserId |-> 0, selectedUser |-> Absent,
   isDrawerLoading |-> FALSE, drawerError |-> "", drawerNotice |-> "",
   drawerNoticeTone |-> "success", planDraft |-> "free", isSavingPlan |-> FALSE,
   isRenewingQuota |-> FALSE, drawerRequestId |-> 0, inflight |-> {}, calls |-> {},
   last |-> [step |-> "other"]]

AdminIdle == admin = AdminLoaded([u \in AdminUsers |-> "free"])

mergeUserIntoList(users, updatedUser) ==
  IF updatedUser.user_id \in DOMAIN users
    THEN [users EXCEPT ![updatedUser.user_id] = updatedUser.plan]
    ELSE users

selectedPlan(a) == IF a.selectedUser.present THEN normalizePlan(a.selectedUser.data.plan) ELSE "free"

\* hasPlanChanges = planDraft !== selectedPlan
hasPlanChangesAlways(a) == TRUE
hasPlanChanges(a) == a.planDraft # selectedPlan(a)

Step(a, name) == [a EXCEPT !.last = [step |-> "other"]]

\* a reply's generation test: drawerRequestIdRef.current !== requestId
IsStale(a, req) == a.drawerRequestId # req.requestId

\* handleOpenUserDrawer up to its request (a row is clicked, or activated by
\* keyboard while the drawer is open)
handleOpenUserDrawer(u) ==
  /\ admin.activeTab = "users"
  /\ admin.drawerRequestId < MaxDrawerRequests
  /\ admin' = [Step(admin, "open") EXCEPT
       !.drawerRequestId = @ + 1, !.selectedUserId = u,
       !.selectedUser = Present(AdminUser(u, admin.users[u])),
       !.planDraft = normalizePlan(admin.users[u]),
       !.drawerError = "", !.drawerNotice = "", !.drawerNoticeTone = "success",
       !.isDrawerLoading = TRUE,
       !.inflight = @ \cup {[kind |-> "get", requestId |-> admin.drawerRequestId + 1, id |-> u]}]
  /\ UNCHANGED notPage

\* api.getAdminUser settles
GetAdminUserReply(req, ok, plan) ==
  /\ req \in admin.inflight /\ req.kind = "get"
  /\ LET a == [Step(admin, "get-reply") EXCEPT !.inflight = @ \ {req}] IN
     admin' = IF IsStale(admin, req) THEN a
              ELSE IF ok
                THEN [a EXCEPT !.selectedUser = Present(AdminUser(req.id, plan)),
                               !.planDraft = normalizePlan(plan),
                               !.users = mergeUserIntoList(@, AdminUser(req.id, plan)),
                               !.isDrawerLoading = FALSE]
              ELSE [a EXCEPT !.drawerError = "load-error", !.isDrawerLoading = FALSE]
  /\ UNCHANGED notPage

\* the plan select's onChange (it is disabled while saving or renewing)
ChangePlanDraft(value) ==
  /\ admin.selectedUser.present
  /\ ~(admin.isSavingPlan \/ admin.isRenewingQuota)
  /\ admin' = [Step(admin, "change") EXCEPT !.planDraft = normalizePlan(value)]
  /\ UNCHANGED notPage

\* the call api.updateAdminUserPlan(id, plan) made by step by
UpdateAdminUserPlan(a, by, id, plan) ==
  [a EXCEPT !.calls = @ \cup {[by |-> by, ofSelectedUser |-> id = a.selectedUserId,
                               withDraft |-> plan = a.planDraft,
                               draftDiffers |-> a.planDraft # selectedPlan(a)]},
            !.inflight = @ \cup {[kind |-> "save", requestId |-> a.drawerRequestId,
                                  id |-> id, plan |-> plan]}]

\* handleSavePlan up to its request (the Save button is disabled while
\* saving or renewing and without plan changes)
handleSavePlan ==
  /\ admin.selectedUser.present
  /\ ~(admin.isSavingPlan \/ admin.isRenewingQuota \/ ~hasPlanChanges(admin))
  /\ admin.selectedUserId # 0 /\ hasPlanChanges(admin)
  /\ admin' = UpdateAdminUserPlan(
                [Step(admin, "save") EXCEPT !.isSavingPlan = TRUE, !.drawerNotice = ""],
                "save", admin.selectedUserId, admin.planDraft)
  /\ UNCHANGED notPage

\* api.updateAdminUserPlan settles
UpdatePlanReply(req, ok, plan) ==
  /\ req \in admin.inflight /\ req.kind = "save"
  /\ LET a == [Step(admin, "save-reply") EXCEPT !.inflight = @ \ {req}] IN
     admin' = IF IsStale(admin, req) THEN a
              ELSE IF ok
                THEN [a EXCEPT !.selectedUser = Present(AdminUser(req.id, plan)),
                               !.planDraft = normalizePlan(plan),
                               !.users = mergeUserIntoList(@, AdminUser(req.id, plan)),
                               !.drawerNoticeTone = "success", !.drawerNotice = "plan-saved",
                               !.isSavingPlan = FALSE]
              ELSE [a EXCEPT !.drawerNoticeTone = "error", !.drawerNotice = "save-error",
                             !.isSavingPlan = FALSE]
  /\ UNCHANGED notPage

\* handleRenewQuota up to its request; the handler keeps the selectedUser of
\* the render it was made in
handleRenewQuota ==
  /\ admin.selectedUser.present
  /\ ~(admin.isRenewingQuota \/ admin.isSavingPlan)
  /\ admin.selectedUserId # 0
  /\ admin' = [Step(admin, "renew") EXCEPT
       !.isRenewingQuota = TRUE, !.drawerNotice = "",
       !.inflight = @ \cup {[kind |-> "renew", requestId |-> admin.drawerRequestId,
                             id |-> admin.selectedUserId,
                             selectedUser |-> admin.selectedUser]}]
  /\ UNCHANGED notPage

\* what the drawer, the list and the selection are
DrawerView(a) ==
  [users |-> a.users, selectedUserId |-> a.selectedUserId, selectedUser |-> a.selectedUser]

\* api.resetAdminUserQuota settles: with a payload whose plan is plan, or
\* with an error
ResetQuotaReply(req, ok, plan) ==
  /\ req \in admin.inflight /\ req.kind = "renew"
  /\ LET a == [admin EXCEPT !.inflight = @ \ {req},
                            !.last = IF ok THEN [step |-> "other"]
                                     ELSE [step |-> "renew-failed", before |-> DrawerView(admin)]]
         p == AdminUser(req.selectedUser.data.user_id,
                        normalizePlan(IF plan # Null THEN plan ELSE req.selectedUser.data.plan))
     IN
     admin' = IF IsStale(admin, req) THEN a
              ELSE IF ok
                THEN [a EXCEPT !.drawerNoticeTone = "success", !.drawerNotice = "quota-renewed",
                               !.selectedUser = Present(p), !.planDraft = normalizePlan(p.plan),
                               !.users = mergeUserIntoList(@, p),
                               !.isRenewingQuota = FALSE]
              ELSE [a EXCEPT !.drawerNoticeTone = "error", !.drawerNotice = "renew-error",
                             !.isRenewingQuota = FALSE]
  /\ UNCHANGED notPage

handleCloseDrawer ==
  /\ admin.selectedUserId # 0
  /\ admin.drawerRequestId < MaxDrawerRequests
  /\ admin' = [Step(admin, "close") EXCEPT
       !.drawerRequestId = @ + 1, !.selectedUserId = 0, !.selectedUser = Absent,
       !.isDrawerLoading = FALSE, !.drawerError = "", !.drawerNotice = "",
       !.drawerNoticeTone = "success", !.planDraft = "free", !.isSavingPlan = FALSE,
       !.isRenewingQuota = FALSE]
  /\ UNCHANGED notPage

\* the list is loaded and the drawer is closed
AdminInit == \E users \in [AdminUsers -> Plans] : admin = AdminLoaded(users)

AdminNext ==
  \/ \E u \in AdminUsers : handleOpenUserDrawer(u)
  \/ \E req \in admin.inflight, ok \in BOOLEAN, plan \in RawPlans : GetAdminUserReply(req, ok, plan)
  \/ \E value \in Plans : ChangePlanDraft(value)
  \/ handleSavePlan
  \/ \E req \in admin.inflight, ok \in BOOLEAN, plan \in RawPlans : UpdatePlanReply(req, ok, plan)
  \/ handleRenewQuota
  \/ \E req \in admin.inflight, ok \in BOOLEAN, plan \in RawPlans \cup {Null} :
       ResetQuotaReply(req, ok, plan)
  \/ handleCloseDrawer

(* ------------- conversations, tabs and sessions (App.jsx) -------------- *)

\* at most MaxListRequests list requests are made in a behaviour, and at most
\* MaxInFlight requests await their reply at once
MaxListRequests == 4
MaxInFlight == 3

NavUsers == {1, 2}
ConversationIds == {1, 2}
Tabs == {"chats", "arquived"}

\* the list of a tab as the server returns it to a user, and no list ([])
ListOf(tab, u) == [tab |-> tab, user |-> u]
NoList == [tab |-> "none", user |-> 0]

\* a conversation as api.getConversation returns it to a user: it holds an
\* earlier turn; placeholder: its last message is the assistant placeholder
\* of the open send
ConversationOf(id, u) == [id |-> id, user |-> u, placeholder |-> FALSE]
NoConversation == [id |-> 0, user |-> 0, placeholder |-> FALSE]

NoSend == [open |-> FALSE, id |-> 0, tab |-> "none", user |-> 0]
NoCache == [t \in Tabs |-> NoList]

\* what clearChatState sets
ClearedChat ==
  [conversations |-> NoList, pendingConversationLoads |-> 0, conversationListTab |-> "chats",
   credits |-> [value |-> 0, user |-> 0], currentConversationId |-> 0,
   currentConversation |-> NoConversation, isLoading |-> FALSE, canCancelMessage |-> FALSE,
   conversationListCache |-> NoCache, send |-> NoSend]

\* user: 0 when signed out; token: api holds an access token; send: the
\* open stream with the conversation id, the tab and the user its handler
\* holds; latestConversationRequest: the ref of loadConversations; inflight:
\* the requests awaiting their reply; strayWrite: a stage event wrote to a
\* message that is not the placeholder of its send (history); the other
\* fields are App state, and refs, of the same names
SignedOut ==
  [user |-> 0, token |-> FALSE, latestConversationRequest |-> 0, inflight |-> {},
   strayWrite |-> FALSE] @@ ClearedChat

\* a request of the signed-in user
Request(n, kind, id, tab, requestId) ==
  [kind |-> kind, id |-> id, tab |-> tab, requestId |-> requestId, user |-> n.user]

\* requests more, lists of them list requests, stay within the bounds
CanRequest(requests, lists) ==
  /\ Cardinality(nav.inflight) + requests <= MaxInFlight
  /\ nav.latestConversationRequest + lists <= MaxListRequests

\* clearChatState
clearChatState(n) == [f \in DOMAIN n |-> IF f \in DOMAIN ClearedChat THEN ClearedChat[f] ELSE n[f]]

\* handleUnauthorized
handleUnauthorized(n) == [clearChatState(n) EXCEPT !.user = 0, !.token = FALSE]

\* loadCredits, loadConversation(id) up to their requests
loadCredits(n) == [n EXCEPT !.inflight = @ \cup {Request(n, "credits", 0, "none", 0)}]
loadConversation(n, id) == [n EXCEPT !.inflight = @ \cup {Request(n, "conversation", id, "none", 0)}]

\* loadConversations({ force, tab }) up to its request: without force a
\* cached list is shown at once
loadConversations(n, force, tab) ==
  IF ~force /\ n.conversationListCache[tab] # NoList
    THEN [n EXCEPT !.conversations = n.conversationListCache[tab]]
    ELSE [n EXCEPT !.latestConversationRequest = @ + 1,
                   !.pendingConversationLoads = @ + 1,
                   !.inflight = @ \cup {Request(n, "list", 0, tab, n.latestConversationRequest + 1)}]

\* the reply of req has arrived
Settled2(n, req) == [n EXCEPT !.inflight = @ \ {req}]

\* onAuthenticated (handleAuthenticated): the account-access page signed
\* user u in
onAuthenticated(u) ==
  /\ nav.user = 0
  /\ CanRequest(2, 1)
  /\ nav' = loadCredits(loadConversations(
              [clearChatState(nav) EXCEPT !.user = u, !.token = TRUE], FALSE, "chats"))
  /\ UNCHANGED notNav

handleLogout ==
  /\ nav.user # 0
  /\ nav' = handleUnauthorized(nav)
  /\ UNCHANGED notNav

\* handleSelectConversation, and the effect that loads the selected
\* conversation
handleSelectConversation(id) ==
  /\ nav.user # 0
  /\ id # nav.currentConversationId
  /\ CanRequest(1, 0)
  /\ nav' = loadConversation([nav EXCEPT !.currentConversationId = id], id)
  /\ UNCHANGED notNav

\* what a handler does with a failed request: handleUnauthorized on 401,
\* nothing else
OnFailure(n, status) == IF status = 401 THEN handleUnauthorized(n) ELSE n

\* loadConversation after await api.getConversation(id)
getConversationReply(req, status) ==
  /\ req \in nav.inflight /\ req.kind = "conversation"
  /\ nav' = LET n == Settled2(nav, req) IN
            IF status = 200
              THEN [n EXCEPT !.currentConversation = ConversationOf(req.id, req.user)]
              ELSE OnFailure(n, status)
  /\ UNCHANGED notNav

\* handleChangeConversationTab, and the effect that loads the tab's list
handleChangeConversationTab(tab) ==
  /\ nav.user # 0
  /\ tab # nav.conversationListTab
  /\ CanRequest(1, 2)
  /\ nav' = loadConversations(
              [nav EXCEPT !.latestConversationRequest = @ + 1,
                          !.conversations = nav.conversationListCache[tab],
                          !.conversationListTab = tab,
                          !.currentConversationId = 0,
                          !.currentConversation = NoConversation], FALSE, tab)
  /\ UNCHANGED notNav

\* the generation test of loadConversations
IsLatest(n, req) == n.latestConversationRequest = req.requestId

\* loadConversations after await api.listConversations(archived)
listConversationsReply(req, status) ==
  /\ req \in nav.inflight /\ req.kind = "list"
  /\ nav' = LET n == Settled2(nav, req)
                done == [n EXCEPT !.pendingConversationLoads = Max(0, @ - 1)]
            IN
            IF status = 200
              THEN IF ~IsLatest(n, req) THEN done
                   ELSE [done EXCEPT !.conversationListCache[req.tab] = ListOf(req.tab, req.user),
                                     !.conversations = ListOf(req.tab, req.user)]
              ELSE [OnFailure(n, status) EXCEPT !.pendingConversationLoads = Max(0, @ - 1)]
  /\ UNCHANGED notNav

\* loadCredits after await api.getCredits(): the user's credits, 1
getCreditsReply(req, status) ==
  /\ req \in nav.inflight /\ req.kind = "credits"
  /\ nav' = LET n == Settled2(nav, req) IN
            IF status = 200 THEN [n EXCEPT !.credits = [value |-> 1, user |-> req.user]]
            ELSE OnFailure(n, status)
  /\ UNCHANGED notNav

\* handleSendMessage up to its request: the placeholder is appended to the
\* conversation displayed
handleSendMessage ==
  /\ nav.user # 0
  /\ nav.currentConversationId # 0
  /\ nav.currentConversation # NoConversation
  /\ ~nav.isLoading
  /\ nav' = [nav EXCEPT
       !.send = [open |-> TRUE, id |-> nav.currentConversationId,
                 tab |-> nav.conversationListTab, user |-> nav.user],
       !.isLoading = TRUE, !.canCancelMessage = FALSE,
       !.currentConversation.placeholder = TRUE]
  /\ UNCHANGED notNav

\* onEvent for a stage event (stage1_start .. stage3_complete): it writes to
\* the last message of the conversation displayed. (With no conversation
\* displayed the updater throws; those behaviours are left out.)
onStageEvent ==
  /\ nav.send.open
  /\ nav.currentConversation # NoConversation
  /\ nav' = [nav EXCEPT !.canCancelMessage = TRUE,
                        !.strayWrite = @ \/ ~nav.currentConversation.placeholder]
  /\ UNCHANGED notNav

\* onEvent for title_complete: the list is reloaded with the tab the send's
\* handler holds
onTitleComplete ==
  /\ nav.send.open
  /\ CanRequest(1, 1)
  /\ nav' = loadConversations(
              [nav EXCEPT !.canCancelMessage = TRUE,
                          !.conversationListCache[nav.send.tab] = NoList],
              TRUE, nav.send.tab)
  /\ UNCHANGED notNav

\* onEvent for complete
onComplete ==
  /\ nav.send.open
  /\ CanRequest(3, 1)
  /\ nav' = loadConversations(
              loadConversation(
                loadCredits([nav EXCEPT !.conversationListCache[nav.send.tab] = NoList,
                                        !.send = NoSend, !.canCancelMessage = FALSE,
                                        !.isLoading = FALSE,
                                        !.currentConversation.placeholder = FALSE]),
                nav.send.id),
              TRUE, nav.send.tab)
  /\ UNCHANGED notNav

\* handleCancelMessage and the abort branch of handleSendMessage:
\* refreshConversationAfterCancel requests the conversation when it is still
\* the selected one
handleCancelMessage ==
  /\ nav.send.open
  /\ nav.isLoading /\ nav.canCancelMessage
  /\ CanRequest(1, 0)
  /\ nav' = LET n == [nav EXCEPT !.send = NoSend, !.canCancelMessage = FALSE,
                                 !.isLoading = FALSE,
                                 !.currentConversation.placeholder = FALSE]
            IN IF nav.currentConversationId = nav.send.id
                 THEN loadConversation(n, nav.send.id)
                 ELSE n
  /\ UNCHANGED notNav

\* a user is signed in with the chats list and the credits loaded, or nobody
\* is signed in
SignedIn(u) ==
  [SignedOut EXCEPT !.user = u, !.token = TRUE, !.latestConversationRequest = 1,
                    !.conversationListCache["chats"] = ListOf("chats", u),
                    !.conversations = ListOf("chats", u),
                    !.credits = [value |-> 1, user |-> u]]

NavIdle == nav = SignedOut
NavInit == nav \in {SignedOut, SignedIn(1)}


Replies == {200, 401, 500}

NavNext ==
  \/ \E u \in NavUsers : onAuthenticated(u)
  \/ handleLogout
  \/ \E id \in ConversationIds : handleSelectConversation(id)
  \/ \E req \in nav.inflight, status \in Replies : getConversationReply(req, status)
  \/ \E tab \in Tabs : handleChangeConversationTab(tab)
  \/ \E req \in nav.inflight, status \in Replies : listConversationsReply(req, status)
  \/ \E req \in nav.inflight, status \in Replies : getCreditsReply(req, status)
  \/ handleSendMessage
  \/ onStageEvent
  \/ onTitleComplete
  \/ onComplete
  \/ handleCancelMessage

(* ------------------ sendMessageStream's reader (api.js) ---------------- *)

\* a response body holds at most MaxBlocks terminated event blocks
MaxBlocks == 2

\* The body is a sequence of bytes, each written as a one-character string:
\* LF and CR are the line ends, "d" ":" stand for the prefix 'data:', "m1"
\* "m2" are the two bytes of one non-ASCII character, which decodes to "M";
\* an undecodable byte decodes to "?".
LF == "\n"
CR == "\r"
Whitespace == {" ", LF, CR}

RECURSIVE Flatten(_)
Flatten(seqs) == IF seqs = <<>> THEN <<>> ELSE Head(seqs) \o Flatten(Tail(seqs))

\* TextDecoder.decode(value, { stream: more }): bytes is what is left over from the
\* call before followed by value; the result is the text and the bytes kept
\* for the next call
RECURSIVE Decode(_, _)
Decode(bytes, more) ==
  IF bytes = <<>> THEN [text |-> <<>>, kept |-> <<>>]
  ELSE IF Head(bytes) = "m1"
    THEN IF Len(bytes) = 1
           THEN IF more THEN [text |-> <<>>, kept |-> bytes]
                ELSE [text |-> <<"?">>, kept |-> <<>>]
         ELSE IF bytes[2] = "m2"
           THEN LET r == Decode(SubSeq(bytes, 3, Len(bytes)), more)
                IN [text |-> <<"M">> \o r.text, kept |-> r.kept]
         ELSE LET r == Decode(Tail(bytes), more)
              IN [text |-> <<"?">> \o r.text, kept |-> r.kept]
  ELSE LET r == Decode(Tail(bytes), more)
       IN [text |-> <<IF Head(bytes) = "m2" THEN "?" ELSE Head(bytes)>> \o r.text,
           kept |-> r.kept]

\* buffer.replace(/\r\n/g, '\n')
RECURSIVE ReplaceCRLF(_)
ReplaceCRLF(text) ==
  IF text = <<>> THEN <<>>
  ELSE IF Len(text) >= 2 /\ text[1] = CR /\ text[2] = LF
    THEN <<LF>> \o ReplaceCRLF(SubSeq(text, 3, Len(text)))
  ELSE <<Head(text)>> \o ReplaceCRLF(Tail(text))

\* buffer.indexOf('\n\n'), counted from 1; 0 when there is none
IndexOfSeparator(buffer) ==
  LET at == {i \in 1..(Len(buffer) - 1) : buffer[i] = LF /\ buffer[i + 1] = LF}
  IN IF at = {} THEN 0 ELSE CHOOSE i \in at : \A j \in at : i <= j

RECURSIVE TrimStart(_)
TrimStart(text) ==
  IF text # <<>> /\ Head(text) \in Whitespace THEN TrimStart(Tail(text)) ELSE text

RECURSIVE TrimEnd(_)
TrimEnd(text) ==
  IF text # <<>> /\ text[Len(text)] \in Whitespace
    THEN TrimEnd(SubSeq(text, 1, Len(text) - 1)) ELSE text

Trim(text) == TrimEnd(TrimStart(text))

\* eventBlock.split('\n')
RECURSIVE SplitLines(_)
SplitLines(text) ==
  LET at == {i \in 1..Len(text) : text[i] = LF} IN
  IF at = {} THEN <<text>>
  ELSE LET i == CHOOSE k \in at : \A j \in at : k <= j
       IN <<SubSeq(text, 1, i - 1)>> \o SplitLines(SubSeq(text, i + 1, Len(text)))

\* line.startsWith('data:') and line.slice(5).trimStart()
IsDataLine(line) == Len(line) >= 2 /\ line[1] = "d" /\ line[2] = ":"
DataOf(line) == TrimStart(SubSeq(line, 3, Len(line)))

RECURSIVE DataLines(_)
DataLines(lines) ==
  IF lines = <<>> THEN <<>>
  ELSE (IF IsDataLine(Head(lines)) THEN <<DataOf(Head(lines))>> ELSE <<>>)
       \o DataLines(Tail(lines))

\* dataLines.join('\n')
RECURSIVE Join(_)
Join(lines) ==
  IF Len(lines) = 1 THEN Head(lines) ELSE Head(lines) \o <<LF>> \o Join(Tail(lines))

\* JSON.parse(data): a value is written { ... }; white space between its
\* tokens is skipped; anything else throws
JsonParse(data) ==
  LET t == Trim(data) IN
  IF /\ Len(t) >= 2 /\ t[1] = "{" /\ t[Len(t)] = "}"
     /\ \A i \in 2..(Len(t) - 1) : t[i] \notin {"{", "}", "?"}
    THEN Present(SelectSeq(SubSeq(t, 2, Len(t) - 1), LAMBDA c : c \notin Whitespace))
    ELSE Absent

\* parseEventBlock: the events it hands to onEvent, none or one
parseEventBlock(eventBlock) ==
  IF eventBlock = <<>> THEN <<>>
  ELSE LET dataLines == DataLines(SplitLines(eventBlock)) IN
       IF dataLines = <<>> THEN <<>>
       ELSE LET event == JsonParse(Join(dataLines)) IN
            IF event.present THEN <<event.data>> ELSE <<>>

\* the inner while loop: the blocks up to each separator are parsed and cut
\* off the buffer
RECURSIVE Drain(_)
Drain(buffer) ==
  LET separatorIndex == IndexOfSeparator(buffer) IN
  IF separatorIndex = 0 THEN [events |-> <<>>, buffer |-> buffer]
  ELSE LET r == Drain(SubSeq(buffer, separatorIndex + 2, Len(buffer)))
       IN [events |-> parseEventBlock(Trim(SubSeq(buffer, 1, separatorIndex - 1))) \o r.events,
           buffer |-> r.buffer]

\* the reader of the older api.js: line.startsWith('data: '), line.slice(6)
\* and JSON.parse on each line of a chunk by itself
IsDataLineOfChunk(line) ==
  Len(line) >= 3 /\ line[1] = "d" /\ line[2] = ":" /\ line[3] = " "

RECURSIVE parseLines(_)
parseLines(lines) ==
  IF lines = <<>> THEN <<>>
  ELSE LET line  == Head(lines)
           event == JsonParse(SubSeq(line, 4, Len(line)))
       IN (IF IsDataLineOfChunk(line) /\ event.present THEN <<event.data>> ELSE <<>>)
          \o parseLines(Tail(lines))

\* The event blocks a body is made of, each with the events it carries: a
\* data line ended by LF, the same ended by CRLF, a value written over two
\* data lines, a value holding a non-ASCII character, a comment block, and a
\* data block whose value is not JSON
Blocks ==
  { [bytes |-> <<"d", ":", " ", "{", "a", "}", LF, LF>>, events |-> << <<"a">> >>],
    [bytes |-> <<"d", ":", " ", "{", "b", "}", CR, LF, CR, LF>>, events |-> << <<"b">> >>],
    [bytes |-> <<"d", ":", " ", "{", LF, "d", ":", " ", "a", "}", LF, LF>>,
     events |-> << <<"a">> >>],
    [bytes |-> <<"d", ":", " ", "{", "m1", "m2", "}", LF, LF>>, events |-> << <<"M">> >>],
    [bytes |-> <<":", "k", LF, LF>>, events |-> <<>>],
    [bytes |-> <<"d", ":", " ", "{", "a", LF, LF>>, events |-> <<>>] }

\* how a body ends: after a blank line, or with a last block that has no
\* blank line after it
Finals ==
  { [bytes |-> <<>>, events |-> <<>>],
    [bytes |-> <<"d", ":", " ", "{", "b", "}">>, events |-> << <<"b">> >>],
    [bytes |-> <<"d", ":", " ", "{", "a", "}", LF>>, events |-> << <<"a">> >>] }

Bodies ==
  { [bytes  |-> Flatten([i \in 1..Len(blocks) |-> blocks[i].bytes]) \o final.bytes,
     events |-> Flatten([i \in 1..Len(blocks) |-> blocks[i].events]) \o final.events,
     open   |-> final.bytes # <<>>] :
      blocks \in UNION {[1..n -> Blocks] : n \in 0..MaxBlocks}, final \in Finals }

\* the two copies of sendMessageStream: the one that keeps a buffer between
\* reads and the older one that parses every chunk by itself
Readers == {"buffered", "chunked"}

\* a reader before its first read of a body
Opened(body, reader) ==
  [pc |-> "reading", reader |-> reader, body |-> body.bytes, expected |-> body.events,
   open |-> body.open, kept |-> <<>>, buffer |-> <<>>, delivered |-> <<>>,
   carried |-> FALSE]

NoBody == [bytes |-> <<>>, events |-> <<>>, open |-> FALSE]
SseIdle == sse = [Opened(NoBody, "buffered") EXCEPT !.pc = "done"]
PageIdle == AdminIdle /\ NavIdle /\ SseIdle

\* one pass of the outer loop with done = false: reader.read() hands over
\* the next n bytes of the body
ReadChunk(n) ==
  /\ sse.pc = "reading"
  /\ sse.reader = "buffered"
  /\ n \in 1..Len(sse.body)
  /\ LET decoded == Decode(sse.kept \o SubSeq(sse.body, 1, n), TRUE)
         drained == Drain(ReplaceCRLF(sse.buffer \o decoded.text))
     IN sse' = [sse EXCEPT !.body = SubSeq(sse.body, n + 1, Len(sse.body)),
                           !.kept = decoded.kept,
                           !.buffer = drained.buffer,
                           !.delivered = @ \o drained.events,
                           !.carried = @ \/ (n < Len(sse.body)
                                             /\ (decoded.kept # <<>> \/ drained.buffer # <<>>))]
  /\ UNCHANGED notSse

\* the last pass, done = true, and the trailing block after the loop
ReadDone ==
  /\ sse.pc = "reading"
  /\ sse.reader = "buffered"
  /\ sse.body = <<>>
  /\ LET decoded  == Decode(sse.kept, FALSE)
         drained  == Drain(ReplaceCRLF(sse.buffer \o decoded.text))
         trailing == Trim(drained.buffer)
     IN sse' = [sse EXCEPT !.pc = "done",
                           !.kept = <<>>,
                           !.buffer = drained.buffer,
                           !.delivered = @ \o drained.events
                              \o (IF trailing # <<>> THEN parseEventBlock(trailing) ELSE <<>>)]
  /\ UNCHANGED notSse

\* one pass of the older loop: decoder.decode(value) without the stream
\* option, chunk.split('\n'), and every line parsed by itself
ReadChunkByLine(n) ==
  /\ sse.pc = "reading"
  /\ sse.reader = "chunked"
  /\ n \in 1..Len(sse.body)
  /\ LET chunk == Decode(SubSeq(sse.body, 1, n), FALSE).text
     IN sse' = [sse EXCEPT !.body = SubSeq(sse.body, n + 1, Len(sse.body)),
                           !.delivered = @ \o parseLines(SplitLines(chunk)),
                           !.carried = @ \/ n < Len(sse.body)]
  /\ UNCHANGED notSse

\* the older loop's if (done) break
ReadEnd ==
  /\ sse.pc = "reading"
  /\ sse.reader = "chunked"
  /\ sse.body = <<>>
  /\ sse' = [sse EXCEPT !.pc = "done"]
  /\ UNCHANGED notSse

SseInit == sse \in {Opened(body, reader) : body \in Bodies, reader \in Readers}

SseNext ==
  \/ \E n \in 1..Len(sse.body) : ReadChunk(n)
  \/ ReadDone
  \/ \E n \in 1..Len(sse.body) : ReadChunkByLine(n)
  \/ ReadEnd

(* --------------------------- specifications ---------------------------- *)

\* the turn side at rest
TurnIdle ==
  /\ council = 1
  /\ turn = NoTurn
  /\ stream = NoStream
  /\ storage = <<>>
  /\ client = ReadyClient(0)
  /\ conversation = <<>>

\* the ledger side at rest
LedgerIdle ==
  /\ hasRow = [u \in Users |-> FALSE]
  /\ credits = [u \in Users |-> 0]
  /\ rowLock = [u \in Users |-> 0]
  /\ call = [c \in Callers |-> IdleCall]
  /\ ledgerLog = [u \in Users |-> [EmptyLog EXCEPT !.start = 0 - 1]]
  /\ nCalls = 0

\* the credits a subject's row holds when its turn starts: none, or one that
\* the turn can consume (a turn consumes at most one)
TurnCredits == {0, 1}

\* one conversation is open in the client, new or with an earlier turn, and
\* the subject's ledger row holds TurnCredits credits or does not exist
TurnInit ==
  /\ council \in 1..MaxCouncil
  /\ hasRow \in [Users -> BOOLEAN]
  /\ credits \in [Users -> TurnCredits]
  /\ \A u \in Users : (~hasRow[u] \/ u # Subject) => (credits[u] = 0 /\ ~hasRow[u])
  /\ rowLock = [u \in Users |-> 0]
  /\ call = [c \in Callers |-> IdleCall]
  /\ ledgerLog = [u \in Users |->
                    [EmptyLog EXCEPT !.start = IF hasRow[u] THEN credits[u] ELSE 0 - 1]]
  /\ nCalls = 0
  /\ turn = NoTurn
  /\ stream = NoStream
  /\ storage \in {<<>>, PriorTurn}
  /\ client = ReadyClient(credits[Subject])
  /\ conversation = storage

TurnNext ==
  \/ SendMessage
  \/ Authorize
  \/ \E i \in Participants, ok \in BOOLEAN : SettleStage1(i, ok)
  \/ FinishStage1
  \/ StartStage2
  \/ \E i \in Participants, ok \in BOOLEAN : SettleStage2(i, ok)
  \/ FinishStage2
  \/ StartStage3
  \/ \E ok \in BOOLEAN : SettleStage3(ok)
  \/ Settle
  \/ ReceiveReply
  \/ ReadEvent
  \/ StreamEnd
  \/ CancelMessage
  \/ RefreshAfterCancel
  \/ LoadConversationReply
  \/ LoadCreditsReply

vars == <<ledgerVars, turnVars, rankVars, appVars, pageVars>>

LedgerNext ==
  \/ \E c \in Callers, role \in Roles, u \in Users : BeginConsume(c, role, u)
  \/ \E c \in Callers : ConsumeInsert(c)
  \/ \E c \in Callers : ConsumeUpdate(c)
  \/ \E c \in Callers, role \in Roles, u \in Users, a \in 0..1 : add_account_credits(c, role, u, a)
  \/ \E c \in Callers, u \in Users, v \in {0 - 1, 0, 1} : OwnerUpdate(c, u, v)
  \/ \E c \in Callers, u \in Users : RenewQuota(c, u)

\* the credit ledger alone: no turn is running
InitLedger == LedgerInit /\ TurnIdle /\ RankIdle /\ AppIdle /\ PageIdle
SpecLedger == InitLedger /\ [][LedgerNext]_vars

\* one conversation turn from authorization to its end
InitTurn == TurnInit /\ RankIdle /\ AppIdle /\ PageIdle
SpecTurn == InitTurn /\ [][TurnNext]_vars

\* a turn whose connection may be cut
CutNext == TurnNext \/ StreamCut
SpecCut == InitTurn /\ [][CutNext]_vars

\* the aggregation of Stage2's evaluations
InitRank == RankInit /\ LedgerIdle /\ TurnIdle /\ AppIdle /\ PageIdle
SpecRank == InitRank /\ [][RankNext]_vars

\* the App mounts and resolves the session
InitAuth == AuthInit /\ LedgerIdle /\ TurnIdle /\ RankIdle /\ PageIdle
SpecAuth == InitAuth /\ [][AuthNext]_vars

(* ----------------------- new conversations (App.jsx) ------------------- *)

\* "if (credits <= 0) return" of handleNewConversation and ensureChatIsReady
\* (and canCreateConversation = credits > 0 of the render)
canCreateConversationAlways(c) == TRUE
canCreateConversation(c) == c > 0

\* api.createConversation() is called by handler who with the credits shown
CreateConversation(a, who) ==
  [a EXCEPT !.creating = @ \cup {who}, !.createdWith = @ \cup {client.credits}]

\* handleNewConversation up to its request: with no credits shown it sets the
\* daily limit message and returns
handleNewConversation ==
  /\ app.user
  /\ client.pc = "ready"
  /\ "new" \notin app.creating
  /\ IF ~canCreateConversation(client.credits)
       THEN /\ client' = [client EXCEPT !.accountMessage = "quota"]
            /\ UNCHANGED app
       ELSE /\ client' = [client EXCEPT !.accountMessage = ""]
            /\ app' = CreateConversation(app, "new")
  /\ UNCHANGED <<notApp, conversation>>

\* the ensureChatIsReady effect up to its request: a signed-in user on the
\* chats tab with no conversation selected and the list loaded gets a
\* conversation created
ensureChatIsReady ==
  /\ app.user /\ app.mainView = "chat"
  /\ app.conversationListTab = "chats"
  /\ app.currentConversationId = 0
  /\ app.pendingConversationLoads = 0
  /\ app.chatsLoaded
  /\ canCreateConversation(client.credits)
  /\ ~app.autoInFlight
  /\ client.pc = "ready"
  /\ app' = [CreateConversation(app, "auto") EXCEPT !.autoInFlight = TRUE]
  /\ UNCHANGED <<notApp, client, conversation>>

\* api.createConversation settles for handler who: the new, empty
\* conversation is selected and the credits reloaded; or the request fails,
\* with 402 showing the daily limit message and reloading the credits
CreateConversationReply(who, status) ==
  /\ who \in app.creating
  /\ client.pc = "ready"
  /\ LET a == [app EXCEPT !.creating = @ \ {who},
                          !.autoInFlight = IF who = "auto" THEN FALSE ELSE @]
     IN IF status = 200
          THEN /\ app' = [a EXCEPT !.currentConversationId = 1, !.mainView = "chat"]
               /\ conversation' = <<>>
               /\ storage' = <<>>
               /\ client' = [client EXCEPT !.pending = @ \cup {"credits"}]
          ELSE /\ app' = a
               /\ client' = IF status = 402
                              THEN [client EXCEPT !.accountMessage = "quota",
                                                  !.pending = @ \cup {"credits"}]
                              ELSE client
               /\ UNCHANGED <<conversation, storage>>
  /\ UNCHANGED <<ledgerVars, rankVars, pageVars, council, turn, stream>>

\* a send made while no createConversation request is in flight
SendInConversation ==
  /\ app.creating = {}
  /\ SendMessage

\* a signed-in user's App once handleAuthenticated or bootstrapSession has
\* set the user: a conversation is selected or none is, the list and the
\* credits are being loaded, and the credits shown are still 0
ChatInit ==
  /\ council = 1
  /\ hasRow \in [Users -> BOOLEAN]
  /\ credits \in [Users -> TurnCredits]
  /\ \A u \in Users : (~hasRow[u] \/ u # Subject) => (credits[u] = 0 /\ ~hasRow[u])
  /\ rowLock = [u \in Users |-> 0]
  /\ call = [c \in Callers |-> IdleCall]
  /\ ledgerLog = [u \in Users |->
                    [EmptyLog EXCEPT !.start = IF hasRow[u] THEN credits[u] ELSE 0 - 1]]
  /\ nCalls = 0
  /\ turn = NoTurn
  /\ stream = NoStream
  /\ \E id \in {0, 1} :
       /\ app = [SignedInApp(id) EXCEPT !.pendingConversationLoads = 1, !.chatsLoaded = FALSE]
       /\ storage \in (IF id = 0 THEN {<<>>} ELSE {<<>>, PriorTurn})
  /\ client = [ReadyClient(0) EXCEPT !.pending = {"credits"}]
  /\ conversation = storage

ChatNext ==
  \/ handleNewConversation
  \/ ensureChatIsReady
  \/ \E who \in {"new", "auto"}, status \in {200, 402, 500} : CreateConversationReply(who, status)
  \/ LoadConversationsReply
  \/ SendInConversation
  \/ Authorize
  \/ \E i \in Participants, ok \in BOOLEAN : SettleStage1(i, ok)
  \/ FinishStage1
  \/ StartStage2
  \/ \E i \in Participants, ok \in BOOLEAN : SettleStage2(i, ok)
  \/ FinishStage2
  \/ StartStage3
  \/ \E ok \in BOOLEAN : SettleStage3(ok)
  \/ Settle
  \/ ReceiveReply
  \/ ReadEvent
  \/ StreamEnd
  \/ CancelMessage
  \/ RefreshAfterCancel
  \/ LoadConversationReply
  \/ LoadCreditsReply

\* a signed-in user creates conversations and sends a message
InitChat == ChatInit /\ RankIdle /\ PageIdle
SpecChat == InitChat /\ [][ChatNext]_vars

\* the admin page with its user list loaded
InitAdmin == AdminInit /\ LedgerIdle /\ TurnIdle /\ RankIdle /\ AppIdle /\ NavIdle /\ SseIdle
SpecAdmin == InitAdmin /\ [][AdminNext]_vars

\* a user moves between conversations, tabs and sessions while requests are
\* in flight
InitNav == NavInit /\ LedgerIdle /\ TurnIdle /\ RankIdle /\ AppIdle /\ AdminIdle /\ SseIdle
SpecNav == InitNav /\ [][NavNext]_vars

InitSse == SseInit /\ LedgerIdle /\ TurnIdle /\ RankIdle /\ AppIdle /\ AdminIdle /\ NavIdle
SpecSse == InitSse /\ [][SseNext]_vars

(* ----------------------------- claims ---------------------------------- *)

\* the row of u was touched by consume calls only
OnlyConsumed(u) == ~ledgerLog[u].others /\ ledgerLog[u].granted = 0

\* C1: two consume_account_credit calls for the same user whose row holds
\* credits = 1, and no other write to the row: at no point have two calls
\* succeeded, and once both have ended exactly one returned (the value 0) and
\* exactly one raised INSUFFICIENT_CREDITS, whatever the interleaving.
C1_ExactlyOneSuccess ==
  \A u \in Users :
    (ledgerLog[u].start = 1 /\ OnlyConsumed(u)) =>
      /\ ledgerLog[u].ok <= 1
      /\ (ledgerLog[u].ok + ledgerLog[u].insufficient + ledgerLog[u].failed = 2) =>
            /\ ledgerLog[u].ok = 1
            /\ ledgerLog[u].insufficient = 1
            /\ ledgerLog[u].lastReturn = 0
            /\ credits[u] = 0

\* two overlapping consume calls on a row with credits = 1 have both ended
C1_Witness ==
  \E u \in Users :
    /\ ledgerLog[u].start = 1 /\ OnlyConsumed(u) /\ ledgerLog[u].overlap
    /\ ledgerLog[u].ok = 1 /\ ledgerLog[u].insufficient = 1
    /\ \A c \in Callers : call[c].pc = "idle"

\* C2: in every reachable state, whatever consume, add-credits, renewal and
\* direct-write operations ran and however they interleaved, every row's
\* credits is an integer >= 0.
C2_NeverNegative ==
  \A u \in Users : credits[u] \in Nat

\* a row that went through a consume, a grant and a renewal and is back at 0
C2_Witness ==
  \E u \in Users :
    /\ ledgerLog[u].ok > 0 /\ ledgerLog[u].granted > 0 /\ ledgerLog[u].others
    /\ hasRow[u] /\ credits[u] = 0

CanonicalEvents ==
  <<"stage1_start", "stage1_complete", "stage2_start", "stage2_complete",
    "stage3_start", "stage3_complete", "complete">>

IsPrefix(a, b) == Len(a) <= Len(b) /\ SubSeq(b, 1, Len(a)) = a

TerminalEvents == {"complete", "error"}
CountTerminal(types) == Cardinality({k \in 1..Len(types) : types[k] \in TerminalEvents})

Settled(slots) == Len(slots) = council /\ \A k \in 1..Len(slots) : slots[k] # Pending

\* the client's messages made by the send of this behaviour
OwnMessages == {k \in 1..Len(conversation) : conversation[k].send = 1}

\* C3: the stages run strictly in sequence. Stage2 has started only if every
\* Stage1 call has settled, Stage3 only if every Stage2 call has settled; the
\* events emitted are stage1_start, stage1_complete, stage2_start,
\* stage2_complete, stage3_start, stage3_complete, complete in this order (a
\* prefix of it, or a prefix ended by error), and onEvent receives them in
\* the order emitted.
C3_StagesInSequence ==
  /\ ("stage2_start" \in {stream.emitted[k] : k \in 1..Len(stream.emitted)})
        => Settled(turn.stage1) /\ turn.state # "stage1"
  /\ ("stage3_start" \in {stream.emitted[k] : k \in 1..Len(stream.emitted)})
        => Settled(turn.stage2) /\ turn.state \notin {"stage1", "after1", "stage2"}
  /\ \/ IsPrefix(stream.emitted, CanonicalEvents)
     \/ /\ Len(stream.emitted) > 0
        /\ stream.emitted[Len(stream.emitted)] = "error"
        /\ IsPrefix(SubSeq(stream.emitted, 1, Len(stream.emitted) - 1), CanonicalEvents)
  /\ IsPrefix(client.received, stream.emitted)

\* a completed turn whose seven events all reached onEvent
C3_Witness ==
  /\ turn.state = "completed"
  /\ council >= 2
  /\ client.received = CanonicalEvents

QuotaDenied == stream.status = 402
EveryStage1Failed ==
  /\ Settled(turn.stage1)
  /\ {k \in 1..Len(turn.stage1) : ~turn.stage1[k].failed} = {}

\* C5: a turn that has ended is Failed exactly when quota was denied or every
\* Stage1 participant failed; with at least one Stage1 success and no
\* cancellation it is Completed, whatever single calls of Stage1, Stage2 or
\* Stage3 failed, with one response per participant and one label per
\* successful response.
C5_FailedOnlyWhenAllFail ==
  turn.state \in TerminalStates =>
    /\ turn.state = "failed" <=> (QuotaDenied \/ EveryStage1Failed)
    /\ (~QuotaDenied /\ ~EveryStage1Failed /\ ~stream.aborted) =>
         /\ turn.state = "completed"
         /\ Len(turn.stage1) = council
         /\ Len(turn.labelMap.data) =
              Cardinality({k \in 1..council : ~turn.stage1[k].failed})

\* three participants, the second one failed in Stage1, an evaluator and
\* the chairman failed too, and the turn is Completed with two labels
C5_Witness ==
  /\ turn.state = "completed" /\ council = 3
  /\ turn.stage1[2].failed /\ ~turn.stage1[1].failed /\ ~turn.stage1[3].failed
  /\ Len(turn.labelMap.data) = 2
  /\ turn.stage2[1].failed
  /\ turn.stage3.data.text = "error"

\* C6: once Stage1 has returned, it holds exactly one ModelResponse per
\* participant and entry i is participant i's, whatever order the calls
\* settled in; the same holds of the responses the stage1_complete event
\* carries to the client.
C6_OneResponsePerParticipant ==
  /\ turn.state \in {"after1", "stage2", "after2", "stage3", "after3", "completed", "cancelled"}
       => /\ Len(turn.stage1) = council
          /\ \A i \in 1..council : turn.stage1[i].model = i
  /\ \A k \in OwnMessages :
       conversation[k].stage1.present =>
         /\ Len(conversation[k].stage1.data) = council
         /\ \A i \in 1..council : conversation[k].stage1.data[i].model = i

\* three participants whose calls settled out of CouncilConfig order
C6_Witness ==
  /\ turn.state = "after1" /\ council = 3 /\ turn.outOfOrder
  /\ turn.stage1[1].failed /\ ~turn.stage1[3].failed

Range(f) == {f[k] : k \in DOMAIN f}

Mentions(l) ==
  {k \in 1..Len(rank.evaluations) :
     /\ ~rank.evaluations[k].failed
     /\ l \in Range(rank.evaluations[k].parsedOrder)}
PositionIn(order, l) == CHOOSE p \in 1..Len(order) : order[p] = l
PositionsOf(l) == {PositionIn(rank.evaluations[k].parsedOrder, l) : k \in Mentions(l)}

RECURSIVE SumOfPositions(_, _)
SumOfPositions(l, ks) ==
  IF ks = {} THEN 0
  ELSE LET k == CHOOSE x \in ks : TRUE
       IN PositionIn(rank.evaluations[k].parsedOrder, l) + SumOfPositions(l, ks \ {k})

EntriesOf(agg, modelId) == {e \in 1..Len(agg) : agg[e].modelId = modelId}

\* C8: AggregateRank has an entry (exactly one) for a modelId exactly when
\* its label occurs in the parsedOrder of at least one successfully parsed
\* evaluation; the entry's evaluationCount is the number of those evaluations
\* and its averageRank is the mean of the label's 1-based positions in them.
\* Positions 1 and 3 in two evaluations give 2.0, and three evaluations that
\* each rank all three labels give three entries with evaluationCount = 3.
C8_AggregateRank ==
  rank.aggregate.present =>
    LET agg == rank.aggregate.data
        labels == DOMAIN rank.labelMap
    IN
    /\ \A l \in labels :
         /\ Cardinality(EntriesOf(agg, rank.labelMap[l])) = (IF Mentions(l) = {} THEN 0 ELSE 1)
         /\ \A e \in EntriesOf(agg, rank.labelMap[l]) :
              /\ agg[e].evaluationCount = Cardinality(Mentions(l))
              /\ agg[e].averageRank.den = Cardinality(Mentions(l))
              /\ agg[e].averageRank.num = SumOfPositions(l, Mentions(l))
              /\ (Cardinality(Mentions(l)) = 2 /\ PositionsOf(l) = {1, 3})
                   => agg[e].averageRank.num = 2 * agg[e].averageRank.den
    /\ \A e \in 1..Len(agg) : \E l \in labels : agg[e].modelId = rank.labelMap[l]
    /\ (/\ Len(rank.evaluations) = 3 /\ Cardinality(labels) = 3
        /\ \A k \in 1..3 : Range(rank.evaluations[k].parsedOrder) = labels)
         => /\ Len(agg) = 3
            /\ \A e \in 1..3 : agg[e].evaluationCount = 3

\* a response ranked first by one evaluator and third by another, not ranked
\* by the third evaluator, whose text did not parse; one response ranked by
\* nobody
C8_Witness ==
  /\ rank.aggregate.present
  /\ rank.labelMap = <<1, 2, 3>>
  /\ rank.evaluations =
       <<PeerEvaluation(1, <<1, 2>>), PeerEvaluation(2, <<2>>), PeerEvaluation(3, <<>>)>>
  /\ Len(rank.aggregate.data) = 2

\* C9 as stated: every turn that ended and is not cancelled emitted exactly
\* one terminal event.
C9_Original ==
  turn.state \in {"completed", "failed"} => CountTerminal(stream.emitted) = 1

\* C9 amended: every turn whose event stream was opened (it passed
\* authorization) and that is not cancelled emits exactly one terminal event,
\* complete when Completed and error when Failed, as its last event; no turn
\* emits two terminal events or an event after one, and onEvent receives the
\* events as emitted. A turn denied at authorization emits no event at all.
C9_OneTerminalEvent ==
  /\ CountTerminal(stream.emitted) <= 1
  /\ \A k \in 1..Len(stream.emitted) :
       stream.emitted[k] \in TerminalEvents => k = Len(stream.emitted)
  /\ IsPrefix(client.received, stream.emitted)
  /\ (turn.state \in {"completed", "failed"} /\ ~QuotaDenied) =>
       /\ CountTerminal(stream.emitted) = 1
       /\ stream.emitted[Len(stream.emitted)] =
            (IF turn.state = "completed" THEN "complete" ELSE "error")
  /\ QuotaDenied => stream.emitted = <<>>

\* a Failed turn whose error event, its only terminal event, reached onEvent
C9_Witness ==
  /\ turn.state = "failed" /\ ~QuotaDenied
  /\ client.received = <<"stage1_start", "error">>
  /\ client.pc = "done"

\* C10: when authorization fails with InsufficientQuota the turn is Failed
\* with no Stage1, Stage2 or Stage3 call made and no event emitted, the
\* ledger row unchanged, and the reply is 402; once the client has handled
\* the reply it shows the quota message, is no longer loading, and holds no
\* message of that send.
C10_QuotaDenied ==
  (turn.failure = "InsufficientQuota" \/ QuotaDenied) =>
    /\ turn.state = "failed" /\ turn.failure = "InsufficientQuota" /\ QuotaDenied
    /\ turn.stage1 = <<>> /\ turn.stage2 = <<>> /\ ~turn.stage3.present
    /\ turn.inflight = {} /\ turn.chairmanCalls = 0
    /\ stream.emitted = <<>> /\ stream.wire = <<>>
    /\ ledgerLog[Subject].ok = 0
    /\ client.received = <<>>
    /\ client.pc = "done" =>
         /\ client.accountMessage = "quota"
         /\ ~client.isLoading /\ ~client.canCancelMessage
         /\ OwnMessages = {}
         /\ conversation = storage

\* a send denied for quota in a conversation that holds an earlier turn
C10_Witness ==
  /\ turn.failure = "InsufficientQuota"
  /\ client.pc = "done"
  /\ client.accountMessage = "quota"
  /\ conversation = PriorTurn

C12_ZeroStaysZero ==
  [][\A c \in Callers :
       LET u == call[c].target IN
       (/\ call[c].pc = "update" /\ call'[c].pc = "idle"
        /\ hasRow[u] /\ ~call[c].inserted /\ credits[u] = 0)
       => /\ hasRow'[u] /\ credits'[u] = 0
          /\ ledgerLog'[u].insufficient = ledgerLog[u].insufficient + 1
          /\ ledgerLog'[u].ok = ledgerLog[u].ok
          /\ ledgerLog'[u].failed = ledgerLog[u].failed]_vars

\* a row that held 0 from the start, after a consume call on it was refused
C12_Witness ==
  \E u \in Users :
    /\ ledgerLog[u].start = 0 /\ OnlyConsumed(u)
    /\ ledgerLog[u].insufficient >= 1
    /\ hasRow[u] /\ credits[u] = 0

\* the consume calls on u's row that have finished
FinishedConsumes(u) == ledgerLog[u].ok + ledgerLog[u].insufficient + ledgerLog[u].failed

\* C13 as stated: the first consume for a user without a row creates the row
\* with full capacity and succeeds, returning capacity - 1.
C13_Original ==
  \A u \in Users :
    (ledgerLog[u].start = 0 - 1 /\ OnlyConsumed(u) /\ FinishedConsumes(u) = 1)
      => /\ ledgerLog[u].ok = 1
         /\ ledgerLog[u].lastReturn = DailyCapacity - 1

\* C13 amended: consume_account_credit creates the missing row with 0
\* credits, so while only consume calls touch a user that had no row every
\* one of them raises INSUFFICIENT_CREDITS, the user's credits read 0, and the
\* raise takes the inserted row back.
C13_FirstUseIsEmpty ==
  \A u \in Users :
    (ledgerLog[u].start = 0 - 1 /\ OnlyConsumed(u))
      => /\ ledgerLog[u].ok = 0 /\ ledgerLog[u].failed = 0
         /\ get_account_credits(hasRow[u], credits[u]) = 0
         /\ (\A c \in Callers : call[c].target # u) => ~hasRow[u]

\* the first consume for a user without a row has been refused
C13_Witness ==
  \E u \in Users :
    /\ ledgerLog[u].start = 0 - 1 /\ OnlyConsumed(u)
    /\ ledgerLog[u].insufficient = 1
    /\ ~hasRow[u]

\* C14 as stated: nothing the user itself can run changes the credits of its
\* row except the guarded decrement (and the renewal): no direct write and no
\* self-granted credit happens.
C14_Original ==
  \A u \in Users : ledgerLog[u].selfWrites = 0

\* the assistant messages of this send that the client shows
OwnReplies == {k \in OwnMessages : conversation[k].role = "assistant"}
\* a chairman result that is not the cancelled placeholder
ReceivedResult(m) == m.stage3.present /\ ~m.stage3.data.cancelled

\* C15 as stated: every turn that has ended has a ChairmanResult.
C15_Original ==
  turn.state \in TerminalStates => turn.stage3.present

\* C15 amended: every turn that ends Completed or Cancelled ends with exactly
\* one ChairmanResult (a Failed turn has none): the chairman was called at
\* most once, the cancelled = true result stands exactly when Stage3 produced
\* none, and the persisted turn carries that one result. In the client the
\* cancelled placeholder is on a message only when no stage3_complete was
\* received for it, and a chairman result a message already shows is never
\* replaced by the placeholder.
C15_OneChairmanResult ==
  /\ [](turn.state \in {"completed", "cancelled"} =>
          /\ turn.stage3.present
          /\ turn.chairmanCalls <= 1
          /\ turn.stage3.data.cancelled <=> turn.chairmanCalls = 0
          /\ turn.state = "completed" => ~turn.stage3.data.cancelled
          /\ Len(storage) >= 2
          /\ storage[Len(storage)].send = 1
          /\ storage[Len(storage)].stage3 = turn.stage3
          /\ Cardinality({k \in 1..Len(storage) :
                            storage[k].role = "assistant" /\ storage[k].send = 1}) = 1)
  /\ [](\A k \in OwnReplies :
          (conversation[k].stage3.present /\ conversation[k].stage3.data.cancelled)
            => "stage3_complete" \notin Range(client.received))
  /\ [][\A k \in OwnReplies :
          (ReceivedResult(conversation[k]) /\ k \in DOMAIN conversation')
            => ReceivedResult(conversation'[k])]_vars

\* the user stopped a turn after its stage3_complete was received: the
\* message keeps the chairman's result
C15_Witness ==
  /\ stream.aborted
  /\ "poll" \in client.pending
  /\ client.received = <<"stage1_start", "stage1_complete", "stage2_start",
                         "stage2_complete", "stage3_start", "stage3_complete">>
  /\ \E k \in OwnReplies : ReceivedResult(conversation[k])

\* Turn Storage holds the assistant message of this send
TurnPersisted ==
  \E k \in 1..Len(storage) : storage[k].role = "assistant" /\ storage[k].send = 1
\* the client aborted the stream and refreshConversationAfterCancel has returned
PollEnded == stream.aborted /\ client.pc = "done" /\ "poll" \notin client.pending
\* C16 as stated, as the final result of the polling: once the polling that
\* follows an abort has ended (no later step of the client reads Turn
\* Storage) and Turn Storage holds the turn's assistant message, the client
\* displays the persisted turn.
C16_Original ==
  (PollEnded /\ TurnPersisted) => conversation = storage

\* C17 as stated, as the final state of a send: once sendMessageStream has
\* returned or thrown and handleSendMessage is through (the stream ended by a
\* complete or error event, an abort, an HTTP failure, or the server closing
\* it with no terminal event), the client is not loading and the cancel
\* control is disabled.
C17_Original ==
  client.pc = "done" => (~client.isLoading /\ ~client.canCancelMessage)

\* the calls of one name made so far, and whether call a came before call b
CallsOf(name) == {k \in DOMAIN app.calls : app.calls[k] = name}
Precedes(a, b) == \A k \in CallsOf(b) : \E j \in CallsOf(a) : j < k

\* C19: resolveSupabaseSession calls getSession before any
\* exchangeCodeForSession; it calls exchangeCodeForSession (once) only when
\* the URL carries a code, and when the URL has no code it never calls it and
\* returns what getSession returned.
C19_SessionBeforeExchange ==
  /\ Precedes("get-session", "exchange-code")
  /\ Cardinality(CallsOf("get-session")) <= 1
  /\ Cardinality(CallsOf("exchange-code")) <= 1
  /\ CallsOf("exchange-code") # {} => app.hadCode
  /\ (app.resolved.present /\ ~app.hadCode /\ app.existing # Null)
       => /\ CallsOf("exchange-code") = {}
          /\ app.resolved.data.session = app.existing

\* the PKCE callback path: no stored session, the URL carries a code, and
\* the exchange gave the session
C19_Witness ==
  /\ app.hadCode /\ app.existing = "none"
  /\ SubSeq(app.calls, 1, 3) = <<"resolve-session", "get-session", "exchange-code">>
  /\ app.resolved = SessionResult("token", FALSE)

\* C20: when the App mounts without a stored token, bootstrapSession resolves
\* the Supabase session before it clears the OAuth callback artifacts from
\* the URL, each exactly once; when no session is resolved it never sets an
\* access token, never requests the current user, and ends on the
\* account-access page (no user, not loading).
C20_ResolveThenClear ==
  ~app.hadToken =>
    /\ Precedes("resolve-session", "clear-artifacts")
    /\ Cardinality(CallsOf("resolve-session")) <= 1
    /\ Cardinality(CallsOf("clear-artifacts")) <= 1
    /\ app.pc \notin {"start", "get-session", "exchange"} =>
         /\ Cardinality(CallsOf("resolve-session")) = 1
         /\ Cardinality(CallsOf("clear-artifacts")) = 1
         /\ ~app.urlArtifacts
    /\ (app.resolved.present /\ app.resolved.data.session = "none") =>
         /\ CallsOf("set-access-token") = {}
         /\ CallsOf("get-current-user") = {}
         /\ app.pc \in {"done", "signed-in"}
         /\ app.pc = "done" => (~app.token /\ ~app.user /\ ~app.isAuthLoading)

\* the App mounted on a callback URL, the session resolved to none, and the
\* account-access page is shown
C20_Witness ==
  /\ ~app.hadToken /\ app.hadCode
  /\ app.pc = "done"
  /\ app.resolved = SessionResult("none", FALSE)
  /\ app.calls = <<"resolve-session", "get-session", "exchange-code", "clear-artifacts">>
  /\ ~app.user /\ ~app.isAuthLoading

\* the subject's ledger held no credit when the send was made
SentAtZeroQuota == turn.state # "idle" /\ ledgerLog[Subject].start <= 0

\* C18: with the quota at 0, new conversations and messages are blocked:
\* every createConversation call, of handleNewConversation or of the
\* automatic bootstrap, was made with displayed credits above 0, and a send
\* made while the quota is 0 stores no message of that send and, once the
\* client has handled the reply, leaves none in the displayed conversation.
C18_BlockedAtZero ==
  /\ \A c \in app.createdWith : c > 0
  /\ SentAtZeroQuota =>
       /\ {k \in 1..Len(storage) : storage[k].send = 1} = {}
       /\ client.pc = "done" => (OwnMessages = {} /\ conversation = storage)

\* no conversation is selected, the list and the credits are loaded, the
\* credits shown are 0: the bootstrap created nothing and
\* handleNewConversation answered with the daily limit message
C18_Witness ==
  /\ app.currentConversationId = 0
  /\ app.chatsLoaded /\ app.pendingConversationLoads = 0
  /\ client.pending = {} /\ client.credits = 0
  /\ client.accountMessage = "quota"
  /\ app.createdWith = {} /\ app.creating = {}

\* C21: every updateAdminUserPlan call was made by the Save action, never by
\* a change of the plan selection, while the draft plan differed from the
\* selected user's current plan, and with the selected user's id and the
\* draft plan as its arguments.
C21_ExplicitSave ==
  /\ \A c \in admin.calls :
       c.by = "save" /\ c.ofSelectedUser /\ c.withDraft /\ c.draftDiffers
  /\ \A req \in admin.inflight : req.kind = "save" => admin.calls # {}

\* the draft was changed to pro, saved, and the reply made it the selected
\* user's plan
C21_Witness ==
  /\ admin.calls # {}
  /\ admin.drawerNotice = "plan-saved"
  /\ admin.selectedUser.present /\ selectedPlan(admin) = "pro"
  /\ ~admin.isSavingPlan

\* C22 as stated: once a failed resetAdminUserQuota has been handled, the
\* drawer's notice is the error, the users list, the selected user and the
\* open drawer are as before, and isRenewingQuota is false.
C22_Original ==
  admin.last.step = "renew-failed" =>
    /\ admin.drawerNotice = "renew-error" /\ admin.drawerNoticeTone = "error"
    /\ DrawerView(admin) = admin.last.before
    /\ admin.selectedUserId # 0
    /\ ~admin.isRenewingQuota

InFlight(kind) == {req \in nav.inflight : req.kind = kind}

\* C23 as stated: whenever no conversation request is in flight, the
\* conversation displayed is absent or is the one whose id is selected.
C23_Original ==
  (nav.user # 0 /\ InFlight("conversation") = {}) =>
    \/ nav.currentConversation = NoConversation
    \/ nav.currentConversation.id = nav.currentConversationId

\* C24 as stated: no stage event of a stream writes to a message other than
\* the assistant placeholder of the send that opened the stream.
C24_Original == ~nav.strayWrite

\* C25 as stated: whenever no list request is in flight, the list shown in
\* the sidebar is the list of the selected tab (or empty).
C25_Original ==
  (nav.user # 0 /\ InFlight("list") = {}) =>
    \/ nav.conversations = NoList
    \/ nav.conversations.tab = nav.conversationListTab

\* the signed-out state
IsSignedOut ==
  /\ nav.user = 0 /\ ~nav.token /\ ~nav.send.open
  /\ nav.conversations = NoList
  /\ nav.currentConversationId = 0 /\ nav.currentConversation = NoConversation
  /\ nav.credits.value = 0 /\ ~nav.isLoading

\* what is displayed came from requests of user u
ShowsOnly(u) ==
  /\ nav.conversations # NoList => nav.conversations.user = u
  /\ nav.currentConversation # NoConversation => nav.currentConversation.user = u
  /\ nav.credits.value # 0 => nav.credits.user = u

\* C26 as stated: while nobody is signed in the client is in the signed-out
\* state, whatever replies arrive, and after another user signed in nothing
\* displayed comes from a request of the user before.
C26_Original ==
  /\ nav.user = 0 => IsSignedOut
  /\ nav.user # 0 => ShowsOnly(nav.user)

\* isMessageProcessing (chat-interface) and getStageStatus (process details)
isMessageProcessing(message) ==
  message.loading.stage1 \/ message.loading.stage2 \/ message.loading.stage3
getStageStatus(message, key) ==
  IF message.loading[key] THEN "running"
  ELSE IF message[key].present THEN "completed"
  ELSE "pending"

StageKeys == {"stage1", "stage2", "stage3"}

\* C27 as stated: once the send has ended, no stage of its assistant message
\* is marked loading: the message is not reported as processing and none of
\* its stages as running.
C27_Original ==
  client.pc = "done" =>
    \A k \in OwnReplies :
      /\ ~isMessageProcessing(conversation[k])
      /\ \A key \in StageKeys : getStageStatus(conversation[k], key) # "running"

\* C28: for every split of a body into chunks sendMessageStream hands onEvent
\* the events of the body's well-formed data blocks, each once and in the
\* order of the body: while it reads, what it has delivered is a prefix of
\* them, and when it is done it has delivered all of them, the one of a last
\* block without a blank line included.
C28_Original ==
  /\ Len(sse.delivered) <= Len(sse.expected)
  /\ sse.delivered = SubSeq(sse.expected, 1, Len(sse.delivered))
  /\ sse.pc = "done" => sse.delivered = sse.expected

====
